---- MODULE Spec2Model ----
(***************************************************************************)
(* Model of the real-time collaboration engine of the collaborative        *)
(* document editor: the operation batcher of the socket handler            *)
(* (batchDocumentOperation / flushDocumentOperations and the SIGTERM /     *)
(* SIGINT hooks), the optimistic content update of the HTTP layer          *)
(* (PUT /:id/content) and the presence registry kept in the ephemeral      *)
(* store (addUserToDocument / removeUserFromDocument) as driven by the     *)
(* joinDocument, leaveDocument and disconnect handlers.                    *)
(*                                                                         *)
(* Every `await` of the source is a suspension point: an action of the     *)
(* model is the completion of one awaited store call together with the     *)
(* synchronous code that follows it, up to and including the issue of the  *)
(* next awaited call.                                                      *)
(***************************************************************************)
EXTENDS Integers, Sequences, FiniteSets, TLC

\* ------------------------------------------------------------------ bounds
MaxOps == 2
MaxTasks == 2
MaxFailures == 1
MaxSignals == 1
MaxConns == 1
MaxReqs == 2
MaxSockets == 2
MaxHandlers == 2
MaxEvents == 3
MaxStarted == 2
MaxReads == 2
MaxGuarded == 2
PresenceTtl == 2

Docs == {"d1", "d2"}
Contents == {"a", "b"}
NoDoc == "none"
NoContent == "none"

OpIds == 1..MaxOps
TaskIds == 1..MaxTasks
SignalIds == 1..MaxSignals
ReqIds == 1..MaxReqs
Conns == 1..MaxSockets
ReadIds == 1..MaxReads
HandlerIds == 1..MaxHandlers

VARIABLES
    \* socketHandler.js, module state
    operationBatches,   \* Map documentId -> pending array (0: no entry); an array is named by the id of its first operation
    arrOps,             \* the operations pushed onto each array object, in push order
    arrTimer,           \* whether the timeout stored in the array's timeoutId is still pending
    flushTasks,         \* the running invocations of flushDocumentOperations
    sigLoops,           \* the running SIGTERM/SIGINT handlers (the for..of over operationBatches)
    \* durable store
    documents,          \* documents row: content, version
    opLog,              \* document_operations rows of each document, in insertion order
    \* process
    phase,              \* "running" | "shutting" (server.close called) | "exited"
    openConns,          \* number of open client connections of the HTTP server
    failures,           \* store calls that have thrown so far
    \* history (read by the properties only)
    nextOp,             \* number of operations submitted so far
    flushStarts,        \* per document: flush invocations that found a non-empty queue
    contentWrites,      \* per document: for each content UPDATE executed, the id of the operation whose finalContent it carried
    failedArrs,         \* array objects on which a flush ended in its catch block
    pendingAtSignal,    \* ids of the operations that were queued when a termination signal arrived
    \* routes/documents.js
    requests,           \* the PUT /:id/content requests: position, inputs, the version read, the response
    \* socket layer and ephemeral store
    sockState,          \* per socket: "new" | "open" | "gone"
    sockUser,           \* per socket: socket.userId, set by authenticateSocket from the token
    listening,          \* per socket: the connection handler has attached the event listeners
    activeConnections,  \* Map socket.id -> {currentDocument}
    rooms,              \* per socket: the rooms it is in (socket.join / socket.leave)
    presence,           \* per document: the fields of the hash presence:doc:<id>, in insertion order
    handlers,           \* the event handler invocations in flight
    events,             \* number of events received from open sockets so far
    sockToken,          \* per socket: the credential of socket.handshake
    activeUsers,        \* the members of the set active:users
    emitted,            \* the events emitted by the last step, each with the sockets it is sent to
    chatMessages,       \* the rows of chat_messages, in insertion order
    titles,             \* documents row: title
    received,           \* per socket: the events received from it, in receipt order
    cursors,            \* per document and user: whether the key cursor:doc:<id>:<userId> is set
    typing,             \* per document: the users with a typing indicator
    presenceTtl,        \* per document: the time left to the key presence:doc:<id> (0: no timeout)
    \* document cache and GET /:id
    cache,              \* per document: the value of the key doc:<id> (NoEntry: no key)
    reads               \* the GET /:id requests: position, document, the row read, the response

batchVars == <<operationBatches, arrOps, arrTimer, flushTasks, sigLoops, documents, opLog,
               phase, openConns, failures, nextOp, flushStarts, contentWrites, failedArrs,
               pendingAtSignal>>

\* the batcher's state without the documents rows
batchOnlyVars == <<operationBatches, arrOps, arrTimer, flushTasks, sigLoops, opLog, phase,
                   openConns, nextOp, flushStarts, contentWrites, failedArrs, pendingAtSignal>>

\* the socket layer, the ephemeral store and the chat table
socketVars == <<sockState, sockUser, listening, activeConnections, rooms, presence, handlers,
                events, sockToken, activeUsers, emitted, chatMessages, received, cursors,
                typing, presenceTtl>>

presenceVars == <<socketVars, titles>>

\* the document cache and the requests that fill it
cacheVars == <<cache, reads>>

vars == <<batchVars, requests, presenceVars, cacheVars>>

\* ------------------------------------------------------------------ helpers
Range(s) == {s[k] : k \in 1..Len(s)}

Min(S) == CHOOSE x \in S : \A y \in S : x <= y

Max(S) == CHOOSE x \in S : \A y \in S : x >= y

IdleTask == [pc |-> "idle", arr |-> 0, i |-> 0, doc |-> NoDoc, arg |-> 0, owner |-> 0, retry |-> FALSE]

ActiveTasks == {t \in TaskIds : flushTasks[t].pc # "idle"}

FreeTasks == TaskIds \ ActiveTasks

\* the operations submitted so far, for one document
SubmittedOps(d) == {o \in UNION {Range(arrOps[a]) : a \in OpIds} : o.doc = d}

OpById(k) == CHOOSE o \in UNION {Range(arrOps[a]) : a \in OpIds} : o.id = k

ArrDoc(a) == arrOps[a][1].doc

PreviousVersion(version) == version - 1

SameVersion(version) == version

\* SET version = version + 1
NextVersion(version) == version + 1

\* no key doc:<id>
NoEntry == [content |-> "none", title |-> "none", version |-> 0]

\* invalidateDocumentCache: the del has been executed
InvalidateDocumentCache(d) == cache' = [cache EXCEPT ![d] = NoEntry]

UpdateTitleOnce(d, title) ==
    titles' = [titles EXCEPT ![d] = IF @ = "untitled" THEN title ELSE @]

\* UPDATE documents SET title = $1, updated_at = NOW() WHERE id = $2 has been executed
UpdateTitle(d, title) == titles' = [titles EXCEPT ![d] = title]

\* --------------------------------------------------------- operation batcher

\* flushDocumentOperations, entry: `operations = operationBatches.get(documentId)`;
\* with no entry it returns at once, otherwise the for..of loop issues the INSERT of
\* the first operation.  The task keeps a reference to the array object, not a copy.
NewFlushTask(d, owner) ==
    [pc |-> "insert", arr |-> operationBatches[d], i |-> 1, doc |-> d, arg |-> 0,
     owner |-> owner, retry |-> operationBatches[d] \in failedArrs]

\* the content the UPDATE carries: operations[operations.length - 1].finalContent,
\* read when the UPDATE is issued
LastQueued(ops) == ops[Len(ops)]

\* batchDocumentOperation: the operation is pushed onto the document's array, created
\* if the Map has none, and the array's timeout is replaced by a new one
BatchDocumentOperation(d, c, type) ==
    LET k == nextOp + 1
        a == IF operationBatches[d] = 0 THEN k ELSE operationBatches[d]
        op == [id |-> k, doc |-> d, type |-> type, finalContent |-> c, win |-> flushStarts[d],
               during |-> \E t \in ActiveTasks : flushTasks[t].doc = d]
    IN /\ operationBatches' = [operationBatches EXCEPT ![d] = a]
       /\ arrOps' = [arrOps EXCEPT ![a] = Append(@, op)]
       /\ arrTimer' = [arrTimer EXCEPT ![a] = TRUE]
       /\ nextOp' = k

\* a content operation of a documentEdit event reaches batchDocumentOperation
Submit(d, c) ==
    /\ phase # "exited"
    /\ openConns > 0
    /\ nextOp < MaxOps
    /\ BatchDocumentOperation(d, c, "insert")
    /\ UNCHANGED <<flushTasks, sigLoops, documents, opLog, phase, openConns, failures,
                   flushStarts, contentWrites, failedArrs, pendingAtSignal>>
    /\ UNCHANGED cache

\* the setTimeout callback armed by batchDocumentOperation: flushDocumentOperations(documentId)
TimerFire(a) ==
    /\ phase # "exited"
    /\ arrTimer[a]
    /\ arrTimer' = [arrTimer EXCEPT ![a] = FALSE]
    /\ LET d == ArrDoc(a)
       IN IF operationBatches[d] = 0
          THEN UNCHANGED <<flushTasks, flushStarts>>
          ELSE /\ FreeTasks # {}
               /\ flushTasks' = [flushTasks EXCEPT ![Min(FreeTasks)] = NewFlushTask(d, 0)]
               /\ flushStarts' = [flushStarts EXCEPT ![d] = @ + 1]
    /\ UNCHANGED <<operationBatches, arrOps, sigLoops, documents, opLog, phase, openConns,
                   failures, nextOp, contentWrites, failedArrs, pendingAtSignal>>
    /\ UNCHANGED cache

\* the entries the Map iterator of a signal handler still has to visit: entries are
\* kept in insertion order, an array is inserted once, and array ids grow with time
EntriesAfter(last) == {a \in OpIds : a > last /\ \E d \in Docs : operationBatches[d] = a}

\* A flush invocation returns (normally or through its catch block).  A timer's
\* invocation just ends; a signal handler's loop goes on to the next Map entry and
\* starts its flush in the slot that has become free.
EndTask(t) ==
    LET s == flushTasks[t].owner
    IN IF s = 0
       THEN /\ flushTasks' = [flushTasks EXCEPT ![t] = IdleTask]
            /\ UNCHANGED <<sigLoops, flushStarts>>
       ELSE IF EntriesAfter(sigLoops[s].last) = {}
            THEN /\ flushTasks' = [flushTasks EXCEPT ![t] = IdleTask]
                 /\ sigLoops' = [sigLoops EXCEPT ![s].st = "done"]
                 /\ UNCHANGED flushStarts
            ELSE LET a == Min(EntriesAfter(sigLoops[s].last))
                 IN /\ flushTasks' = [flushTasks EXCEPT ![t] = NewFlushTask(ArrDoc(a), s)]
                    /\ sigLoops' = [sigLoops EXCEPT ![s].last = a]
                    /\ flushStarts' = [flushStarts EXCEPT ![ArrDoc(a)] = @ + 1]

\* an INSERT INTO document_operations completes; the for..of loop reads the array's
\* current length, then either issues the next INSERT or the content UPDATE
InsertDone(t) ==
    /\ phase # "exited"
    /\ flushTasks[t].pc = "insert"
    /\ LET ft == flushTasks[t]
           ops == arrOps[ft.arr]
       IN /\ opLog' = [opLog EXCEPT ![ops[ft.i].doc] = Append(@, ops[ft.i].id)]
          /\ flushTasks' = [flushTasks EXCEPT ![t] =
                IF ft.i < Len(ops)
                THEN [ft EXCEPT !.i = ft.i + 1]
                ELSE [ft EXCEPT !.pc = "update", !.arg = LastQueued(ops).id]]
    /\ UNCHANGED <<operationBatches, arrOps, arrTimer, sigLoops, documents, phase, openConns,
                   failures, nextOp, flushStarts, contentWrites, failedArrs, pendingAtSignal>>
    /\ UNCHANGED cache

\* the content UPDATE completes, then operationBatches.delete(documentId) and the
\* cache invalidation is issued
UpdateDone(t) ==
    /\ phase # "exited"
    /\ flushTasks[t].pc = "update"
    /\ LET ft == flushTasks[t]
       IN /\ documents' = [documents EXCEPT ![ft.doc] =
                [content |-> OpById(ft.arg).finalContent, version |-> NextVersion(@.version)]]
          /\ contentWrites' = [contentWrites EXCEPT ![ft.doc] = Append(@, ft.arg)]
          /\ operationBatches' = [operationBatches EXCEPT ![ft.doc] = 0]
          /\ flushTasks' = [flushTasks EXCEPT ![t].pc = "invalidate"]
    /\ UNCHANGED <<arrOps, arrTimer, sigLoops, opLog, phase, openConns, failures, nextOp,
                   flushStarts, failedArrs, pendingAtSignal>>
    /\ UNCHANGED cache

\* invalidateDocumentCache completes: the flush returns
InvalidateDone(t) ==
    /\ phase # "exited"
    /\ flushTasks[t].pc = "invalidate"
    /\ EndTask(t)
    /\ UNCHANGED <<operationBatches, arrOps, arrTimer, documents, opLog, phase, openConns,
                   failures, nextOp, contentWrites, failedArrs, pendingAtSignal>>
    /\ InvalidateDocumentCache(flushTasks[t].doc)

\* an awaited store call throws: the catch block logs and the flush returns.  The
\* batch is deleted only after a successful UPDATE, so a throw of an INSERT or of the
\* UPDATE leaves the array in operationBatches.
StoreThrows(t) ==
    /\ phase # "exited"
    /\ flushTasks[t].pc \in {"insert", "update", "invalidate"}
    /\ failures < MaxFailures
    /\ failures' = failures + 1
    /\ failedArrs' = IF flushTasks[t].pc = "invalidate" THEN failedArrs
                     ELSE failedArrs \cup {flushTasks[t].arr}
    /\ EndTask(t)
    /\ UNCHANGED <<operationBatches, arrOps, arrTimer, documents, opLog, phase, openConns,
                   nextOp, contentWrites, pendingAtSignal>>
    /\ UNCHANGED cache

\* SIGTERM / SIGINT: the socket handler's hook (registered first) starts its loop
\* and runs the first flush up to its first await, then server.js calls server.close
Signal(s) ==
    /\ phase # "exited"
    /\ sigLoops[s].st = "idle"
    /\ \A r \in SignalIds : r < s => sigLoops[r].st # "idle"
    /\ phase' = "shutting"
    /\ pendingAtSignal' = pendingAtSignal \cup
           {o.id : o \in UNION {Range(arrOps[a]) : a \in EntriesAfter(0)}}
    /\ IF EntriesAfter(0) = {}
       THEN /\ sigLoops' = [sigLoops EXCEPT ![s] = [st |-> "done", last |-> 0]]
            /\ UNCHANGED <<flushTasks, flushStarts>>
       ELSE LET a == Min(EntriesAfter(0))
            IN /\ FreeTasks # {}
               /\ sigLoops' = [sigLoops EXCEPT ![s] = [st |-> "await", last |-> a]]
               /\ flushTasks' = [flushTasks EXCEPT ![Min(FreeTasks)] = NewFlushTask(ArrDoc(a), s)]
               /\ flushStarts' = [flushStarts EXCEPT ![ArrDoc(a)] = @ + 1]
    /\ UNCHANGED <<operationBatches, arrOps, arrTimer, documents, opLog, openConns, failures,
                   nextOp, contentWrites, failedArrs>>
    /\ UNCHANGED cache

\* a client connection is accepted (not after server.close)
ClientConnect ==
    /\ phase = "running"
    /\ openConns < MaxConns
    /\ openConns' = openConns + 1
    /\ UNCHANGED <<operationBatches, arrOps, arrTimer, flushTasks, sigLoops, documents, opLog,
                   phase, failures, nextOp, flushStarts, contentWrites, failedArrs,
                   pendingAtSignal>>
    /\ UNCHANGED cache

ClientClose ==
    /\ phase # "exited"
    /\ openConns > 0
    /\ openConns' = openConns - 1
    /\ UNCHANGED <<operationBatches, arrOps, arrTimer, flushTasks, sigLoops, documents, opLog,
                   phase, failures, nextOp, flushStarts, contentWrites, failedArrs,
                   pendingAtSignal>>
    /\ UNCHANGED cache

\* server.close's callback: all connections have ended, process.exit(0).  The
\* process memory (queues, timers, handlers) is gone; a query that was in flight may
\* or may not still be executed by the store, a del of the cache included.
Exit ==
    /\ phase = "shutting"
    /\ openConns = 0
    /\ phase' = "exited"
    /\ operationBatches' = [d \in Docs |-> 0]
    /\ arrTimer' = [a \in OpIds |-> FALSE]
    /\ sigLoops' = [s \in SignalIds |-> [st |-> "done", last |-> 0]]
    /\ flushTasks' = [t \in TaskIds |->
          IF flushTasks[t].pc \in {"insert", "update"}
          THEN [flushTasks[t] EXCEPT !.owner = 0, !.retry = FALSE]
          ELSE IdleTask]
    /\ UNCHANGED <<arrOps, documents, opLog, openConns, failures, nextOp, flushStarts,
                   contentWrites, failedArrs, pendingAtSignal>>
    /\ \E landed \in SUBSET {flushTasks[t].doc : t \in {u \in TaskIds : flushTasks[u].pc = "invalidate"}} :
          cache' = [d \in Docs |-> IF d \in landed THEN NoEntry ELSE cache[d]]

\* after the exit: the query in flight is executed by the store, nothing follows it
QueryLands(t) ==
    /\ phase = "exited"
    /\ flushTasks[t].pc \in {"insert", "update"}
    /\ LET ft == flushTasks[t]
       IN IF ft.pc = "insert"
          THEN /\ opLog' = [opLog EXCEPT ![ft.doc] = Append(@, arrOps[ft.arr][ft.i].id)]
               /\ UNCHANGED <<documents, contentWrites>>
          ELSE /\ documents' = [documents EXCEPT ![ft.doc] =
                     [content |-> OpById(ft.arg).finalContent, version |-> NextVersion(@.version)]]
               /\ contentWrites' = [contentWrites EXCEPT ![ft.doc] = Append(@, ft.arg)]
               /\ UNCHANGED opLog
    /\ flushTasks' = [flushTasks EXCEPT ![t] = IdleTask]
    /\ UNCHANGED <<operationBatches, arrOps, arrTimer, sigLoops, phase, openConns, failures,
                   nextOp, flushStarts, failedArrs, pendingAtSignal>>
    /\ UNCHANGED cache

\* after the exit: the query in flight never reached the store
QueryLost(t) ==
    /\ phase = "exited"
    /\ flushTasks[t].pc \in {"insert", "update"}
    /\ flushTasks' = [flushTasks EXCEPT ![t] = IdleTask]
    /\ UNCHANGED <<operationBatches, arrOps, arrTimer, sigLoops, documents, opLog, phase,
                   openConns, failures, nextOp, flushStarts, contentWrites, failedArrs,
                   pendingAtSignal>>
    /\ UNCHANGED cache

BatchInit ==
    /\ operationBatches = [d \in Docs |-> 0]
    /\ arrOps = [a \in OpIds |-> <<>>]
    /\ arrTimer = [a \in OpIds |-> FALSE]
    /\ flushTasks = [t \in TaskIds |-> IdleTask]
    /\ sigLoops = [s \in SignalIds |-> [st |-> "idle", last |-> 0]]
    /\ documents = [d \in Docs |-> [content |-> "", version |-> 1]]
    /\ opLog = [d \in Docs |-> <<>>]
    /\ phase = "running"
    /\ openConns = 0
    /\ failures = 0
    /\ nextOp = 0
    /\ flushStarts = [d \in Docs |-> 0]
    /\ contentWrites = [d \in Docs |-> <<>>]
    /\ failedArrs = {}
    /\ pendingAtSignal = {}

BatchNext ==
    \/ \E d \in Docs, c \in Contents : Submit(d, c)
    \/ \E a \in OpIds : TimerFire(a)
    \/ \E t \in TaskIds : InsertDone(t)
    \/ \E t \in TaskIds : UpdateDone(t)
    \/ \E t \in TaskIds : InvalidateDone(t)
    \/ \E t \in TaskIds : StoreThrows(t)
    \/ \E s \in SignalIds : Signal(s)
    \/ ClientConnect
    \/ ClientClose
    \/ Exit
    \/ \E t \in TaskIds : QueryLands(t)
    \/ \E t \in TaskIds : QueryLost(t)

\* ------------------------------------------------------------- GET /:id

\* the row of a document as GET /:id reads it
DocumentData(d) ==
    [content |-> documents[d].content, title |-> titles[d], version |-> documents[d].version]

IdleRead == [pc |-> "idle", doc |-> NoDoc, row |-> NoEntry, result |-> "none"]

\* the request arrives: getCachedDocument is awaited
GetDocument(g, d) ==
    /\ reads[g].pc = "idle"
    /\ \A q \in ReadIds : q < g => reads[q].pc # "idle"
    /\ reads' = [reads EXCEPT ![g] = [IdleRead EXCEPT !.pc = "cached", !.doc = d]]
    /\ UNCHANGED <<batchVars, cache>>

\* getCachedDocument returned: a hit is answered with the cached value, on a miss
\* the SELECT of the row is issued
GetCachedGot(g) ==
    /\ reads[g].pc = "cached"
    /\ LET hit == cache[reads[g].doc]
       IN reads' = [reads EXCEPT ![g] =
             IF hit # NoEntry
             THEN [@ EXCEPT !.pc = "done", !.row = hit, !.result = "ok"]
             ELSE [@ EXCEPT !.pc = "select"]]
    /\ UNCHANGED <<batchVars, cache>>

\* the SELECT returned the row: cacheDocument is awaited with it
GetSelectDone(g) ==
    /\ reads[g].pc = "select"
    /\ reads' = [reads EXCEPT ![g].pc = "fill", ![g].row = DocumentData(reads[g].doc)]
    /\ UNCHANGED <<batchVars, cache>>

\* cacheDocument returned: the setex has stored the row that was read; 200 with it
GetCacheFilled(g) ==
    /\ reads[g].pc = "fill"
    /\ cache' = [cache EXCEPT ![reads[g].doc] = reads[g].row]
    /\ reads' = [reads EXCEPT ![g].pc = "done", ![g].result = "ok"]
    /\ UNCHANGED batchVars

\* an awaited store call throws: 500
GetThrows(g) ==
    /\ reads[g].pc \in {"cached", "select", "fill"}
    /\ failures < MaxFailures
    /\ failures' = failures + 1
    /\ reads' = [reads EXCEPT ![g].pc = "done", ![g].result = "error"]
    /\ UNCHANGED <<batchOnlyVars, documents, cache>>

\* the key doc:<id> was set with a TTL of 3600 s: it expires
CacheExpires(d) ==
    /\ cache[d] # NoEntry
    /\ cache' = [cache EXCEPT ![d] = NoEntry]
    /\ UNCHANGED <<batchVars, reads>>

CacheInit ==
    /\ cache = [d \in Docs |-> NoEntry]
    /\ reads = [g \in ReadIds |-> IdleRead]

ReadNext ==
    \/ \E g \in ReadIds, d \in Docs : GetDocument(g, d)
    \/ \E g \in ReadIds : GetCachedGot(g)
    \/ \E g \in ReadIds : GetSelectDone(g)
    \/ \E g \in ReadIds : GetCacheFilled(g)
    \/ \E g \in ReadIds : GetThrows(g)
    \/ \E d \in Docs : CacheExpires(d)

\* ------------------------------------------------------ PUT /:id/content

\* the `version` field of the request body: absent (undefined) or an integer
NoVersion == [supplied |-> FALSE, value |-> 0]

ClientVersions == {NoVersion} \cup {[supplied |-> TRUE, value |-> v] : v \in 0..(MaxReqs + 1)}

\* JavaScript truthiness of `version`: undefined and 0 are falsy
Truthy(cv) == cv.supplied /\ cv.value # 0

\* `version && version !== currentVersion`
VersionConflict(cv, currentVersion) == Truthy(cv) /\ cv.value # currentVersion

IdleRequest == [pc |-> "idle", doc |-> NoDoc, content |-> NoContent, cv |-> NoVersion,
                currentVersion |-> 0, retVersion |-> 0, result |-> "none", title |-> ""]

\* the request arrives: a content that is no string is answered 400, otherwise the
\* SELECT of the version is issued
PutContent(r, d, c, cv) ==
    /\ requests[r].pc = "idle"
    /\ \A q \in ReqIds : q < r => requests[q].pc # "idle"
    /\ requests' = [requests EXCEPT ![r] =
          IF c = NoContent
          THEN [IdleRequest EXCEPT !.pc = "done", !.doc = d, !.cv = cv, !.result = "badRequest"]
          ELSE [IdleRequest EXCEPT !.pc = "select", !.doc = d, !.content = c, !.cv = cv]]
    /\ UNCHANGED batchVars
    /\ UNCHANGED cache

\* the SELECT completes: on a version conflict 409 with both versions, otherwise the
\* UPDATE is issued
PutContentSelectDone(r) ==
    /\ requests[r].pc = "select"
    /\ LET rq == requests[r]
           currentVersion == documents[rq.doc].version
       IN requests' = [requests EXCEPT ![r] =
             IF VersionConflict(rq.cv, currentVersion)
             THEN [rq EXCEPT !.pc = "done", !.currentVersion = currentVersion,
                             !.result = "conflict"]
             ELSE [rq EXCEPT !.pc = "update", !.currentVersion = currentVersion]]
    /\ UNCHANGED batchVars
    /\ UNCHANGED cache

\* UPDATE documents SET content, version = version + 1 ... RETURNING * completes and
\* the cache invalidation is issued
PutContentUpdateDone(r) ==
    /\ requests[r].pc = "update"
    /\ LET rq == requests[r]
       IN /\ documents' = [documents EXCEPT ![rq.doc] =
                [content |-> rq.content, version |-> NextVersion(@.version)]]
          /\ requests' = [requests EXCEPT ![r] =
                [rq EXCEPT !.pc = "invalidate", !.retVersion = NextVersion(documents[rq.doc].version)]]
    /\ UNCHANGED <<batchOnlyVars, failures>>
    /\ UNCHANGED cache

\* the invalidation completes: 200 with the row the UPDATE returned
PutContentInvalidateDone(r) ==
    /\ requests[r].pc = "invalidate"
    /\ requests' = [requests EXCEPT ![r].pc = "done", ![r].result = "ok"]
    /\ UNCHANGED batchVars
    /\ InvalidateDocumentCache(requests[r].doc)

\* an awaited store call throws: 500
PutContentThrows(r) ==
    /\ requests[r].pc \in {"select", "update", "invalidate"}
    /\ failures < MaxFailures
    /\ failures' = failures + 1
    /\ requests' = [requests EXCEPT ![r].pc = "done", ![r].result = "error"]
    /\ UNCHANGED <<batchOnlyVars, documents>>
    /\ UNCHANGED cache

UpdateInit == requests = [r \in ReqIds |-> IdleRequest]

\* PUT /:id/title arrives: a missing or blank title is answered 400, otherwise the
\* UPDATE of the title is issued
PutTitle(r, d, title) ==
    /\ requests[r].pc = "idle"
    /\ \A q \in ReqIds : q < r => requests[q].pc # "idle"
    /\ requests' = [requests EXCEPT ![r] =
          IF title = ""
          THEN [IdleRequest EXCEPT !.pc = "done", !.doc = d, !.result = "badRequest"]
          ELSE [IdleRequest EXCEPT !.pc = "t_update", !.doc = d, !.title = title]]
    /\ UNCHANGED <<batchVars, titles>>
    /\ UNCHANGED cache

\* UPDATE documents SET title = $1, updated_at = NOW() ... RETURNING * completes and
\* the cache invalidation is issued
PutTitleUpdateDone(r) ==
    /\ requests[r].pc = "t_update"
    /\ UpdateTitle(requests[r].doc, requests[r].title)
    /\ requests' = [requests EXCEPT ![r].pc = "t_invalidate"]
    /\ UNCHANGED batchVars
    /\ UNCHANGED cache

\* the invalidation completes: 200 with the id, title and updated_at of the row
PutTitleInvalidateDone(r) ==
    /\ requests[r].pc = "t_invalidate"
    /\ requests' = [requests EXCEPT ![r].pc = "done", ![r].result = "ok"]
    /\ UNCHANGED <<batchVars, titles>>
    /\ InvalidateDocumentCache(requests[r].doc)

\* an awaited store call throws: 500
PutTitleThrows(r) ==
    /\ requests[r].pc \in {"t_update", "t_invalidate"}
    /\ failures < MaxFailures
    /\ failures' = failures + 1
    /\ requests' = [requests EXCEPT ![r].pc = "done", ![r].result = "error"]
    /\ UNCHANGED <<batchOnlyVars, documents, titles>>
    /\ UNCHANGED cache

TitleNext ==
    \/ \E r \in ReqIds, d \in Docs, title \in {"", "t"} : PutTitle(r, d, title)
    \/ \E r \in ReqIds : PutTitleUpdateDone(r)
    \/ \E r \in ReqIds : PutTitleInvalidateDone(r)
    \/ \E r \in ReqIds : PutTitleThrows(r)

UpdateNext ==
    \/ \E r \in ReqIds, d \in Docs, c \in Contents \cup {NoContent}, cv \in ClientVersions :
          PutContent(r, d, c, cv)
    \/ \E r \in ReqIds : PutContentSelectDone(r)
    \/ \E r \in ReqIds : PutContentUpdateDone(r)
    \/ \E r \in ReqIds : PutContentInvalidateDone(r)
    \/ \E r \in ReqIds : PutContentThrows(r)

\* ------------------------------------------- sockets, rooms and presence

Users == {"u1", "u2"}
NoUser == "none"

\* socket.userId
UserOf(c) == sockUser[c]

\* a user id whose token carries the display name of u1: authenticateSocket takes
\* socket.userId and socket.username from the token and matches neither with the users
\* table
Namesake == "u3"

\* socket.username
Username(u) == IF u = "u2" THEN "bob" ELSE "alice"

\* redisClient.hset(key, field, value): sets the field, replacing its value if present
HSetAppend(h, field, value) == Append(h, [field |-> field] @@ value)

HSet(h, field, value) ==
    IF \E i \in 1..Len(h) : h[i].field = field
    THEN [i \in 1..Len(h) |-> IF h[i].field = field THEN [field |-> field] @@ value ELSE h[i]]
    ELSE Append(h, [field |-> field] @@ value)

HDelNothing(h, field) == h

\* redisClient.hdel(key, field)
HDel(h, field) == SelectSeq(h, LAMBDA e : e.field # field)

\* addUserToDocument: the fields of the hgetall reply that the loop deletes, in reply order
StaleFields(h, userId, username) ==
    LET stale == SelectSeq(h, LAMBDA e : e.userId = userId \/ e.username = username)
    IN [i \in 1..Len(stale) |-> stale[i].field]

\* getDocumentPresence: the parsed values of the hgetall reply
PresenceList(h) == [i \in 1..Len(h) |-> h[i].userId]

\* the credential of a handshake: none, or a token naming a user that is properly
\* signed and current ("valid"), signed with another secret ("forged") or past its
\* expiry ("expired")
NoToken == [kind |-> "none", userId |-> NoUser]

Tokens == {NoToken} \cup [kind : {"valid", "forged", "expired"}, userId : Users]

JwtVerifyAny(token) == TRUE

\* jwt.verify(token, JWT_SECRET): returns the payload, throws on a bad signature and
\* on an expired token
JwtVerify(token) == token.kind = "valid"

\* authenticateSocket calls next() without an error
Authenticated(token) == token # NoToken /\ JwtVerify(token)

Messages == {"", "hi"}
Titles == {"", "t"}
OpTypes == {"insert", "title"}

\* the titles of the events in the rooms of SpecRoom: a title operation carries a title
\* there, the empty title is an input of SpecEvents
RoomTitles == Titles \ {""}

IdleHandler == [kind |-> "none", conn |-> 0, pc |-> "idle", doc |-> NoDoc, todo |-> <<>>,
                was |-> NoDoc, snap |-> <<>>, arg |-> "", sent |-> {}, userId |-> NoUser,
                num |-> 0]

FreeHandlers == {h \in HandlerIds : handlers[h].pc = "idle"}

\* an invocation starts in the lowest free slot
StartHandler(rec) ==
    /\ FreeHandlers # {}
    /\ handlers' = [handlers EXCEPT ![Min(FreeHandlers)] = rec]

\* what the handlers of connections, rooms, presence and chat leave alone: the
\* batcher, the documents rows, the HTTP requests, the cache, cursors and typing
StoreUp == UNCHANGED <<batchVars, requests, cacheVars, cursors, typing, presenceTtl>>

\* the same without the timeout of the presence keys
StoreUpToTtl == UNCHANGED <<batchVars, requests, cacheVars, cursors, typing>>

\* a field of presence:doc:<id> was deleted: a hash left without fields is no key any
\* more and has no timeout
KeyAfterDel(d) ==
    presenceTtl' = [presenceTtl EXCEPT ![d] = IF presence'[d] = <<>> THEN 0 ELSE @]

\* an event of an open socket is received
EventReceived ==
    /\ events < MaxEvents
    /\ events' = events + 1

NotCurrentNever(c, d) == FALSE

\* `!connection || connection.currentDocument !== documentId`
NotCurrent(c, d) == ~activeConnections[c].present \/ activeConnections[c].currentDocument # d

\* the sockets of the namespace: io.emit reaches all of them
Connected == {c \in Conns : sockState[c] = "open"}

WholeRoom(c, d) == {b \in Connected : d \in rooms[b]}

\* socket.to(room): the live sockets in the room, the sender excepted
Others(c, d) == {b \in Connected \ {c} : d \in rooms[b]}

Nobody(d) == {}

\* io.to(room): the live sockets in the room
RoomOf(d) == {b \in Connected : d \in rooms[b]}

\* one emitted event: its name, the handler kind and socket it was emitted for, the
\* document it is about, the sockets it reaches, and its payload: a list of users and
\* a number (the participant count of documentUpdated, the row id of chatMessage, the
\* number of the batched operation of a content documentEdit) and the user ids of a
\* cursors map
Message(ev, kind, c, d, to, users, n) ==
    [ev |-> ev, by |-> kind, from |-> c, doc |-> d, to |-> to, users |-> users, n |-> n,
     cursors |-> {}]

\* getAllCursors: the user ids of the keys cursor:doc:<id>:* that hold a value
GetAllCursors(d) == {u \in Users : cursors[d][u]}

\* a message whose payload has the cursors map of a document
WithCursors(m, d) == [m EXCEPT !.cursors = GetAllCursors(d)]

Emit(msgs) == emitted' = Range(msgs)

\* the members of active:users with a user id; each member is a JSON string with the
\* lastSeen instant of its insertion, named here by the socket that inserted it
MembersOf(u) == {m \in activeUsers : m.userId = u}

\* the members of a set of members as a sequence, oldest insertion first
RECURSIVE InOrder(_)
InOrder(S) ==
    IF S = {} THEN <<>>
    ELSE LET m == CHOOSE x \in S : \A y \in S : x.at <= y.at
         IN <<m>> \o InOrder(S \ {m})

\* getActiveUsers: the parsed members
ActiveUserList == [i \in 1..Cardinality(activeUsers) |-> InOrder(activeUsers)[i].userId]

\* io.use(authenticateSocket): a handshake without a token or with a token that does
\* not verify is refused; otherwise socket.userId is set and io.on('connection') runs:
\* addActiveUser is awaited, its smembers first
SocketConnect(c, u) ==
    /\ sockState' = [sockState EXCEPT ![c] = "open"]
    /\ sockUser' = [sockUser EXCEPT ![c] = u]
    /\ StartHandler([IdleHandler EXCEPT !.kind = "connection", !.conn = c, !.pc = "c_active"])

AuthenticateSocket(c, token) ==
    /\ sockState[c] = "new"
    /\ \A b \in Conns : b < c => sockState[b] # "new"
    /\ sockToken' = [sockToken EXCEPT ![c] = token]
    /\ IF Authenticated(token)
       THEN SocketConnect(c, token.userId)
       ELSE /\ sockState' = [sockState EXCEPT ![c] = "refused"]
            /\ UNCHANGED <<sockUser, handlers>>
    /\ Emit(<<>>)
    /\ UNCHANGED <<listening, activeConnections, rooms, presence, events, activeUsers,
                   chatMessages, titles, received>>
    /\ StoreUp

\* addActiveUser: smembers returned; the loop srem's every member with the same
\* userId, then the sadd is issued
ConnActiveGot(h) ==
    /\ handlers[h].pc = "c_active"
    /\ LET stale == InOrder(MembersOf(UserOf(handlers[h].conn)))
       IN handlers' = [handlers EXCEPT ![h].todo = stale,
                                       ![h].pc = IF stale = <<>> THEN "c_add" ELSE "c_rem"]
    /\ Emit(<<>>)
    /\ UNCHANGED <<sockState, sockUser, listening, activeConnections, rooms, presence, events,
                   sockToken, activeUsers, chatMessages, titles, received>>
    /\ StoreUp

\* addActiveUser: one srem of the loop returned
ConnActiveStaleRemoved(h) ==
    /\ handlers[h].pc = "c_rem"
    /\ activeUsers' = activeUsers \ {Head(handlers[h].todo)}
    /\ handlers' = [handlers EXCEPT ![h].todo = Tail(@),
                                    ![h].pc = IF Tail(handlers[h].todo) = <<>> THEN "c_add"
                                              ELSE "c_rem"]
    /\ Emit(<<>>)
    /\ UNCHANGED <<sockState, sockUser, listening, activeConnections, rooms, presence, events,
                   sockToken, chatMessages, titles, received>>
    /\ StoreUp

\* addActiveUser: the sadd returned; activeConnections.set(socket.id, ...), then
\* getActiveUsers is awaited
ConnRegistered(h) ==
    /\ handlers[h].pc = "c_add"
    /\ LET c == handlers[h].conn
       IN /\ activeUsers' = activeUsers \cup {[userId |-> UserOf(c), at |-> c]}
          /\ activeConnections' = [activeConnections EXCEPT ![c] =
                [present |-> TRUE, currentDocument |-> NoDoc]]
    /\ handlers' = [handlers EXCEPT ![h].pc = "c_list"]
    /\ Emit(<<>>)
    /\ UNCHANGED <<sockState, sockUser, listening, rooms, presence, events, sockToken,
                   chatMessages, titles, received>>
    /\ StoreUp

\* getActiveUsers returned: activeUsers is emitted to all sockets and the socket.on
\* listeners are attached
ConnListening(h) ==
    /\ handlers[h].pc = "c_list"
    /\ listening' = [listening EXCEPT ![handlers[h].conn] = TRUE]
    /\ Emit(<<Message("activeUsers", "connection", handlers[h].conn, NoDoc, Connected,
                      ActiveUserList, 0)>>)
    /\ handlers' = [handlers EXCEPT ![h] = IdleHandler]
    /\ UNCHANGED <<sockUser, sockState, activeConnections, rooms, presence, events, sockToken,
                   activeUsers, chatMessages, titles, received>>
    /\ StoreUp

\* the tail of broadcastDocumentUpdate's caller: joinDocument and leaveDocument log
\* and end; disconnect deletes the connection and awaits getActiveUsers (evs: the
\* events the broadcast emitted)
BroadcastReturns(h, evs) ==
    IF handlers[h].kind = "disconnect"
    THEN /\ activeConnections' = [activeConnections EXCEPT ![handlers[h].conn] =
               [present |-> FALSE, currentDocument |-> NoDoc]]
         /\ handlers' = [handlers EXCEPT ![h].pc = "d_list", ![h].sent = @ \cup evs]
    ELSE /\ handlers' = [handlers EXCEPT ![h] = IdleHandler]
         /\ UNCHANGED activeConnections

\* broadcastDocumentUpdate: getDocumentPresence returned, the summary query is issued
BroadcastPresenceGot(h) ==
    /\ handlers[h].pc = "b_pres"
    /\ handlers' = [handlers EXCEPT ![h].pc = "b_doc",
                                    ![h].snap = PresenceList(presence[handlers[h].doc])]
    /\ Emit(<<>>)
    /\ UNCHANGED <<sockState, sockUser, listening, activeConnections, rooms, presence, events,
                   sockToken, activeUsers, chatMessages, titles, received>>
    /\ StoreUp

\* broadcastDocumentUpdate: the summary query returned its row; documentUpdated, with
\* activeParticipants = presence.length, is emitted to all sockets
BroadcastDone(h) ==
    /\ handlers[h].pc = "b_doc"
    /\ Emit(<<Message("documentUpdated", handlers[h].kind, handlers[h].conn, handlers[h].doc,
                      Connected, handlers[h].snap, Len(handlers[h].snap))>>)
    /\ BroadcastReturns(h, {"documentUpdated"})
    /\ UNCHANGED <<sockState, sockUser, listening, rooms, presence, events, sockToken,
                   activeUsers, chatMessages, titles, received>>
    /\ StoreUp

\* broadcastDocumentUpdate: one of its two awaited calls throws; its own catch block
\* logs the error and the caller goes on
BroadcastThrows(h) ==
    /\ handlers[h].pc \in {"b_pres", "b_doc"}
    /\ failures < MaxFailures
    /\ failures' = failures + 1
    /\ BroadcastReturns(h, {})
    /\ Emit(<<>>)
    /\ UNCHANGED <<sockState, sockUser, listening, rooms, presence, events, sockToken,
                   activeUsers, chatMessages, titles, received>>
    /\ UNCHANGED <<batchOnlyVars, documents, requests, cacheVars, cursors, typing, presenceTtl>>

\* socket.on('joinDocument'): leaves the room of the current document if there is
\* one, otherwise joins the new room; either is awaited
JoinDocument(c, d) ==
    /\ sockState[c] = "open" /\ listening[c]
    /\ LET cur == IF activeConnections[c].present THEN activeConnections[c].currentDocument
                  ELSE NoDoc
       IN IF cur # NoDoc
          THEN /\ rooms' = [rooms EXCEPT ![c] = @ \ {cur}]
               /\ StartHandler([IdleHandler EXCEPT !.kind = "joinDocument", !.conn = c,
                                                   !.doc = d, !.pc = "j_leave", !.was = cur])
          ELSE /\ rooms' = [rooms EXCEPT ![c] = @ \cup {d}]
               /\ StartHandler([IdleHandler EXCEPT !.kind = "joinDocument", !.conn = c,
                                                   !.doc = d, !.pc = "j_join"])
    /\ received' = [received EXCEPT ![c] = Append(@, [ev |-> "joinDocument", doc |-> d])]
    /\ Emit(<<>>)
    /\ UNCHANGED <<sockState, sockUser, listening, activeConnections, presence, sockToken,
                   activeUsers, chatMessages, titles>>
    /\ EventReceived
    /\ StoreUp

\* socket.leave(previous) returned: socket.join(documentId)
JoinLeftPrevious(h) ==
    /\ handlers[h].pc = "j_leave"
    /\ rooms' = [rooms EXCEPT ![handlers[h].conn] = @ \cup {handlers[h].doc}]
    /\ handlers' = [handlers EXCEPT ![h].pc = "j_join"]
    /\ Emit(<<>>)
    /\ UNCHANGED <<sockState, sockUser, listening, activeConnections, presence, events,
                   sockToken, activeUsers, chatMessages, titles, received>>
    /\ StoreUp

\* socket.join returned: connection.currentDocument = documentId, then
\* addUserToDocument issues its hgetall
JoinJoined(h) ==
    /\ handlers[h].pc = "j_join"
    /\ LET c == handlers[h].conn
       IN activeConnections' = [activeConnections EXCEPT ![c] =
             IF @.present THEN [@ EXCEPT !.currentDocument = handlers[h].doc] ELSE @]
    /\ handlers' = [handlers EXCEPT ![h].pc = "a_get"]
    /\ Emit(<<>>)
    /\ UNCHANGED <<sockState, sockUser, listening, rooms, presence, events, sockToken,
                   activeUsers, chatMessages, titles, received>>
    /\ StoreUp

\* addUserToDocument: hgetall returned; the loop hdel's every entry of the reply with
\* the same userId or the same username, then the hset is issued
AddGot(h) ==
    /\ handlers[h].pc = "a_get"
    /\ LET u == UserOf(handlers[h].conn)
           stale == StaleFields(presence[handlers[h].doc], u, Username(u))
       IN handlers' = [handlers EXCEPT ![h].todo = stale,
                                       ![h].pc = IF stale = <<>> THEN "a_set" ELSE "a_del"]
    /\ Emit(<<>>)
    /\ UNCHANGED <<sockState, sockUser, listening, activeConnections, rooms, presence, events,
                   sockToken, activeUsers, chatMessages, titles, received>>
    /\ StoreUp

\* addUserToDocument: one hdel of the loop returned
AddDeleted(h) ==
    /\ handlers[h].pc = "a_del"
    /\ presence' = [presence EXCEPT ![handlers[h].doc] = HDel(@, Head(handlers[h].todo))]
    /\ handlers' = [handlers EXCEPT ![h].todo = Tail(@),
                                    ![h].pc = IF Tail(handlers[h].todo) = <<>> THEN "a_set"
                                              ELSE "a_del"]
    /\ Emit(<<>>)
    /\ UNCHANGED <<sockState, sockUser, listening, activeConnections, rooms, events, sockToken,
                   activeUsers, chatMessages, titles, received>>
    /\ KeyAfterDel(handlers[h].doc)
    /\ StoreUpToTtl

\* addUserToDocument: the hset returned, expire is issued
AddSet(h) ==
    /\ handlers[h].pc = "a_set"
    /\ LET u == UserOf(handlers[h].conn)
       IN presence' = [presence EXCEPT ![handlers[h].doc] =
             HSet(@, u, [userId |-> u, username |-> Username(u)])]
    /\ handlers' = [handlers EXCEPT ![h].pc = "a_exp"]
    /\ Emit(<<>>)
    /\ UNCHANGED <<sockState, sockUser, listening, activeConnections, rooms, events, sockToken,
                   activeUsers, chatMessages, titles, received>>
    /\ StoreUp

\* addUserToDocument: expire(key, 3600) returned: the key, if there is one, has its
\* full timeout again; joinDocument awaits getDocumentPresence
AddExpired(h) ==
    /\ handlers[h].pc = "a_exp"
    /\ handlers' = [handlers EXCEPT ![h].pc = "j_pres"]
    /\ presenceTtl' = [presenceTtl EXCEPT ![handlers[h].doc] =
          IF presence[handlers[h].doc] = <<>> THEN 0 ELSE PresenceTtl]
    /\ Emit(<<>>)
    /\ UNCHANGED <<sockState, sockUser, listening, activeConnections, rooms, presence, events,
                   sockToken, activeUsers, chatMessages, titles, received>>
    /\ StoreUpToTtl

\* time passes by one unit: every presence key with a timeout loses one unit, and a
\* key whose timeout has run out is deleted with all its fields
PresenceTick ==
    /\ \E d \in Docs : presenceTtl[d] > 0
    /\ presenceTtl' = [d \in Docs |-> IF presenceTtl[d] > 0 THEN presenceTtl[d] - 1 ELSE 0]
    /\ presence' = [d \in Docs |-> IF presenceTtl[d] = 1 THEN <<>> ELSE presence[d]]
    /\ Emit(<<>>)
    /\ UNCHANGED <<sockState, sockUser, listening, activeConnections, rooms, events, sockToken,
                   activeUsers, chatMessages, titles, received, handlers>>
    /\ StoreUpToTtl

\* joinDocument: getDocumentPresence returned, getAllCursors is awaited
JoinPresenceGot(h) ==
    /\ handlers[h].pc = "j_pres"
    /\ handlers' = [handlers EXCEPT ![h].pc = "j_cur",
                                    ![h].snap = PresenceList(presence[handlers[h].doc])]
    /\ Emit(<<>>)
    /\ UNCHANGED <<sockState, sockUser, listening, activeConnections, rooms, presence, events,
                   sockToken, activeUsers, chatMessages, titles, received>>
    /\ StoreUp

\* joinDocument: getAllCursors returned; documentJoined is emitted to the socket and
\* userJoined to the others in the room, then broadcastDocumentUpdate is awaited
JoinAnnounced(h) ==
    /\ handlers[h].pc = "j_cur"
    /\ LET c == handlers[h].conn
           d == handlers[h].doc
       IN Emit(<<WithCursors(Message("documentJoined", "joinDocument", c, d,
                                     {c} \cap Connected, handlers[h].snap, 0), d),
                 Message("userJoined", "joinDocument", c, d, Others(c, d), <<UserOf(c)>>, 0)>>)
    /\ handlers' = [handlers EXCEPT ![h].pc = "b_pres", ![h].snap = <<>>,
                                    ![h].sent = @ \cup {"documentJoined", "userJoined"}]
    /\ UNCHANGED <<sockState, sockUser, listening, activeConnections, rooms, presence, events,
                   sockToken, activeUsers, chatMessages, titles, received>>
    /\ StoreUp

\* socket.on('leaveDocument'): socket.leave(documentId) is awaited
LeaveDocument(c, d) ==
    /\ sockState[c] = "open" /\ listening[c]
    /\ rooms' = [rooms EXCEPT ![c] = @ \ {d}]
    /\ StartHandler([IdleHandler EXCEPT !.kind = "leaveDocument", !.conn = c, !.doc = d,
                                        !.pc = "l_left",
                                        !.was = activeConnections[c].currentDocument])
    /\ received' = [received EXCEPT ![c] = Append(@, [ev |-> "leaveDocument", doc |-> d])]
    /\ Emit(<<>>)
    /\ UNCHANGED <<sockState, sockUser, listening, activeConnections, presence, sockToken,
                   activeUsers, chatMessages, titles>>
    /\ EventReceived
    /\ StoreUp

\* socket.leave returned: connection.currentDocument = null, removeUserFromDocument
\* issues its hdel
LeaveLeft(h) ==
    /\ handlers[h].pc = "l_left"
    /\ activeConnections' = [activeConnections EXCEPT ![handlers[h].conn] =
          IF @.present THEN [@ EXCEPT !.currentDocument = NoDoc] ELSE @]
    /\ handlers' = [handlers EXCEPT ![h].pc = "l_del"]
    /\ Emit(<<>>)
    /\ UNCHANGED <<sockState, sockUser, listening, rooms, presence, events, sockToken,
                   activeUsers, chatMessages, titles, received>>
    /\ StoreUp

\* removeUserFromDocument returned; userLeft is emitted to the others in the room and
\* broadcastDocumentUpdate is awaited
LeaveRemoved(h) ==
    /\ handlers[h].pc = "l_del"
    /\ LET c == handlers[h].conn
           d == handlers[h].doc
       IN /\ presence' = [presence EXCEPT ![d] = HDel(@, UserOf(c))]
          /\ Emit(<<Message("userLeft", "leaveDocument", c, d, Others(c, d), <<UserOf(c)>>, 0)>>)
    /\ handlers' = [handlers EXCEPT ![h].pc = "b_pres", ![h].sent = @ \cup {"userLeft"}]
    /\ UNCHANGED <<sockState, sockUser, listening, activeConnections, rooms, events, sockToken,
                   activeUsers, chatMessages, titles, received>>
    /\ KeyAfterDel(handlers[h].doc)
    /\ StoreUpToTtl

\* the socket closes: it leaves all rooms; the disconnect listener, if attached,
\* looks the connection up and awaits removeActiveUser, or without a connection
\* deletes the (absent) entry and awaits getActiveUsers
Disconnect(c) ==
    /\ sockState[c] = "open"
    /\ sockState' = [sockState EXCEPT ![c] = "gone"]
    /\ rooms' = [rooms EXCEPT ![c] = {}]
    /\ IF listening[c]
       THEN StartHandler([IdleHandler EXCEPT !.kind = "disconnect", !.conn = c,
                !.pc = IF activeConnections[c].present THEN "d_active" ELSE "d_list",
                !.was = activeConnections[c].currentDocument])
       ELSE UNCHANGED handlers
    /\ received' = [received EXCEPT ![c] = Append(@, [ev |-> "disconnect", doc |-> NoDoc])]
    /\ EventReceived
    /\ Emit(<<>>)
    /\ UNCHANGED <<sockUser, listening, activeConnections, presence, sockToken, activeUsers,
                   chatMessages, titles>>
    /\ StoreUp

\* what disconnect does once removeActiveUser has returned: with a current document
\* removeUserFromDocument issues its hdel, otherwise the connection is deleted and
\* getActiveUsers awaited
DisconnectActiveReturns(h) ==
    LET c == handlers[h].conn
        cur == activeConnections[c].currentDocument
    IN IF cur # NoDoc
       THEN /\ handlers' = [handlers EXCEPT ![h].pc = "d_del", ![h].doc = cur]
            /\ UNCHANGED activeConnections
       ELSE /\ handlers' = [handlers EXCEPT ![h].pc = "d_list"]
            /\ activeConnections' = [activeConnections EXCEPT ![c] =
                  [present |-> FALSE, currentDocument |-> NoDoc]]

\* removeActiveUser: smembers returned; the first member with the userId is srem'ed
\* (the reply order of a set is arbitrary), with no such member the function returns
DisconnectActiveGot(h) ==
    /\ handlers[h].pc = "d_active"
    /\ LET mine == MembersOf(UserOf(handlers[h].conn))
       IN IF mine = {}
          THEN DisconnectActiveReturns(h)
          ELSE /\ \E m \in mine :
                     handlers' = [handlers EXCEPT ![h].pc = "d_rem", ![h].todo = <<m>>]
               /\ UNCHANGED activeConnections
    /\ Emit(<<>>)
    /\ UNCHANGED <<sockState, sockUser, listening, rooms, presence, events, sockToken,
                   activeUsers, chatMessages, titles, received>>
    /\ StoreUp

\* removeActiveUser: the srem returned
DisconnectActiveRemoved(h) ==
    /\ handlers[h].pc = "d_rem"
    /\ activeUsers' = activeUsers \ {Head(handlers[h].todo)}
    /\ DisconnectActiveReturns(h)
    /\ Emit(<<>>)
    /\ UNCHANGED <<sockState, sockUser, listening, rooms, presence, events, sockToken,
                   chatMessages, titles, received>>
    /\ StoreUp

\* disconnect: removeUserFromDocument returned; userLeft is emitted to the others in
\* the room and broadcastDocumentUpdate awaited
DisconnectRemoved(h) ==
    /\ handlers[h].pc = "d_del"
    /\ LET c == handlers[h].conn
           d == handlers[h].doc
       IN /\ presence' = [presence EXCEPT ![d] = HDel(@, UserOf(c))]
          /\ Emit(<<Message("userLeft", "disconnect", c, d, Others(c, d), <<UserOf(c)>>, 0)>>)
    /\ handlers' = [handlers EXCEPT ![h].pc = "b_pres", ![h].sent = @ \cup {"userLeft"}]
    /\ UNCHANGED <<sockState, sockUser, listening, activeConnections, rooms, events, sockToken,
                   activeUsers, chatMessages, titles, received>>
    /\ KeyAfterDel(handlers[h].doc)
    /\ StoreUpToTtl

\* disconnect: getActiveUsers returned, activeUsers is emitted to all sockets
DisconnectAnnounced(h) ==
    /\ handlers[h].pc = "d_list"
    /\ Emit(<<Message("activeUsers", "disconnect", handlers[h].conn, NoDoc, Connected,
                      ActiveUserList, 0)>>)
    /\ handlers' = [handlers EXCEPT ![h] = IdleHandler]
    /\ UNCHANGED <<sockState, sockUser, listening, activeConnections, rooms, presence, events,
                   sockToken, activeUsers, chatMessages, titles, received>>
    /\ StoreUp

\* socket.on('documentEdit'): ignored unless the document is the connection's current
\* one; a title operation with a non-empty title awaits the UPDATE of the title, any
\* other operation is batched; then documentEdit is emitted to the others in the room
DocumentEdit(c, d, content, type, title) ==
    /\ sockState[c] = "open" /\ listening[c]
    /\ EventReceived
    /\ received' = [received EXCEPT ![c] = Append(@, [ev |-> "documentEdit", doc |-> d])]
    /\ IF NotCurrent(c, d)
       THEN /\ Emit(<<>>)
            /\ UNCHANGED <<operationBatches, arrOps, arrTimer, nextOp, handlers>>
       ELSE IF type = "title" /\ title # ""
            THEN /\ StartHandler([IdleHandler EXCEPT !.kind = "documentEdit", !.conn = c,
                                     !.doc = d, !.pc = "e_title", !.arg = title])
                 /\ Emit(<<>>)
                 /\ UNCHANGED <<operationBatches, arrOps, arrTimer, nextOp>>
            ELSE /\ nextOp < MaxOps
                 /\ BatchDocumentOperation(d, content, type)
                 /\ Emit(<<Message("documentEdit", "documentEdit", c, d, Others(c, d),
                                   <<UserOf(c)>>, nextOp + 1)>>)
                 /\ UNCHANGED handlers
    /\ UNCHANGED <<sockState, sockUser, listening, activeConnections, rooms, presence,
                   sockToken, activeUsers, chatMessages, titles>>
    /\ UNCHANGED <<flushTasks, sigLoops, documents, opLog, phase, openConns, failures,
                   flushStarts, contentWrites, failedArrs, pendingAtSignal, requests,
                   cacheVars, cursors, typing, presenceTtl>>

\* documentEdit, title operation: the UPDATE of the title returned; documentEdit is
\* emitted to the others in the room
EditTitleDone(h) ==
    /\ handlers[h].pc = "e_title"
    /\ LET c == handlers[h].conn
           d == handlers[h].doc
       IN /\ UpdateTitle(d, handlers[h].arg)
          /\ Emit(<<Message("documentEdit", "documentEdit", c, d, Others(c, d),
                            <<UserOf(c)>>, 0)>>)
    /\ handlers' = [handlers EXCEPT ![h] = IdleHandler]
    /\ UNCHANGED <<sockState, sockUser, listening, activeConnections, rooms, presence, events,
                   sockToken, activeUsers, chatMessages, received>>
    /\ StoreUp

\* socket.on('chatMessage'): ignored unless the document is the connection's current
\* one and the message is not blank; the INSERT is awaited
ChatMessage(c, d, message) ==
    /\ sockState[c] = "open" /\ listening[c]
    /\ EventReceived
    /\ received' = [received EXCEPT ![c] = Append(@, [ev |-> "chatMessage", doc |-> d])]
    /\ IF NotCurrent(c, d) \/ message = ""
       THEN UNCHANGED handlers
       ELSE StartHandler([IdleHandler EXCEPT !.kind = "chatMessage", !.conn = c, !.doc = d,
                                             !.pc = "m_ins", !.arg = message])
    /\ Emit(<<>>)
    /\ UNCHANGED <<sockState, sockUser, listening, activeConnections, rooms, presence,
                   sockToken, activeUsers, chatMessages, titles>>
    /\ StoreUp

\* chatMessage: the INSERT returned the new row, with the id and created_at the store
\* gave it (both are the row's serial here); chatMessage is emitted to the room
ChatInserted(h) ==
    /\ handlers[h].pc = "m_ins"
    /\ LET c == handlers[h].conn
           d == handlers[h].doc
           row == [id |-> Len(chatMessages) + 1, doc |-> d, userId |-> UserOf(c),
                   message |-> handlers[h].arg]
       IN /\ chatMessages' = Append(chatMessages, row)
          /\ Emit(<<Message("chatMessage", "chatMessage", c, d, RoomOf(d), <<row.userId>>,
                            row.id)>>)
    /\ handlers' = [handlers EXCEPT ![h] = IdleHandler]
    /\ UNCHANGED <<sockState, sockUser, listening, activeConnections, rooms, presence, events,
                   sockToken, activeUsers, titles, received>>
    /\ StoreUp

\* what the handlers of titleChange, cursorMove, typing and syncDocument leave alone
\* in the socket layer
RoomsUp ==
    UNCHANGED <<sockState, sockUser, listening, activeConnections, rooms, presence, sockToken,
                activeUsers, chatMessages, presenceTtl>>

\* an event that names a document arrives: it is ignored unless the connection is
\* registered and the document is its current one, otherwise its handler starts
GuardedEvent(c, d, ev, rec) ==
    /\ sockState[c] = "open" /\ listening[c]
    /\ EventReceived
    /\ received' = [received EXCEPT ![c] = Append(@, [ev |-> ev, doc |-> d])]
    /\ IF NotCurrent(c, d)
       THEN UNCHANGED handlers
       ELSE StartHandler([rec EXCEPT !.kind = ev, !.conn = c, !.doc = d])
    /\ Emit(<<>>)
    /\ RoomsUp

\* socket.on('titleChange'): the UPDATE of the title is awaited; userId and username
\* are fields of the event's data
TitleChange(c, d, title, userId) ==
    /\ GuardedEvent(c, d, "titleChange",
                    [IdleHandler EXCEPT !.pc = "t_upd", !.arg = title, !.userId = userId])
    /\ UNCHANGED <<batchVars, requests, cacheVars, cursors, typing, titles>>

\* titleChange: the UPDATE returned; titleChange is emitted to the others in the room
\* with the userId of the data
TitleChanged(h) ==
    /\ handlers[h].pc = "t_upd"
    /\ LET c == handlers[h].conn
           d == handlers[h].doc
       IN /\ UpdateTitle(d, handlers[h].arg)
          /\ Emit(<<Message("titleChange", "titleChange", c, d, Others(c, d),
                            <<handlers[h].userId>>, 0)>>)
    /\ handlers' = [handlers EXCEPT ![h] = IdleHandler]
    /\ RoomsUp
    /\ UNCHANGED <<batchVars, requests, cacheVars, cursors, typing, events, received>>

\* socket.on('cursorMove'): setUserCursor is awaited
CursorMove(c, d) ==
    /\ GuardedEvent(c, d, "cursorMove", [IdleHandler EXCEPT !.pc = "u_set"])
    /\ UNCHANGED <<batchVars, requests, cacheVars, cursors, typing, titles>>

\* cursorMove: the setex returned; cursorMove is emitted to the others in the room
CursorSet(h) ==
    /\ handlers[h].pc = "u_set"
    /\ LET c == handlers[h].conn
           d == handlers[h].doc
       IN /\ cursors' = [cursors EXCEPT ![d][UserOf(c)] = TRUE]
          /\ Emit(<<Message("cursorMove", "cursorMove", c, d, Others(c, d), <<UserOf(c)>>, 0)>>)
    /\ handlers' = [handlers EXCEPT ![h] = IdleHandler]
    /\ RoomsUp
    /\ UNCHANGED <<batchVars, requests, cacheVars, typing, titles, events, received>>

\* the key cursor:doc:<id>:<userId> was set with a TTL of 300 s: it expires
CursorExpires(d, u) ==
    /\ cursors[d][u]
    /\ cursors' = [cursors EXCEPT ![d][u] = FALSE]
    /\ Emit(<<>>)
    /\ RoomsUp
    /\ UNCHANGED <<batchVars, requests, cacheVars, typing, titles, events, received, handlers>>

\* socket.on('typing'): setTypingIndicator is awaited, its hset or hdel first
Typing(c, d, isTyping) ==
    /\ GuardedEvent(c, d, "typing",
                    [IdleHandler EXCEPT !.pc = "y_set", !.arg = IF isTyping THEN "on" ELSE "off"])
    /\ UNCHANGED <<batchVars, requests, cacheVars, cursors, typing, titles>>

\* setTypingIndicator: the hset returned and the expire is issued, or the hdel
\* returned and getTypingIndicators is awaited
TypingSet(h) ==
    /\ handlers[h].pc = "y_set"
    /\ LET u == UserOf(handlers[h].conn)
           d == handlers[h].doc
       IN IF handlers[h].arg = "on"
          THEN /\ typing' = [typing EXCEPT ![d] = @ \cup {u}]
               /\ handlers' = [handlers EXCEPT ![h].pc = "y_exp"]
          ELSE /\ typing' = [typing EXCEPT ![d] = @ \ {u}]
               /\ handlers' = [handlers EXCEPT ![h].pc = "y_get"]
    /\ Emit(<<>>)
    /\ RoomsUp
    /\ UNCHANGED <<batchVars, requests, cacheVars, cursors, titles, events, received>>

\* setTypingIndicator: the expire returned; getTypingIndicators is awaited
TypingExpireSet(h) ==
    /\ handlers[h].pc = "y_exp"
    /\ handlers' = [handlers EXCEPT ![h].pc = "y_get"]
    /\ Emit(<<>>)
    /\ RoomsUp
    /\ UNCHANGED <<batchVars, requests, cacheVars, cursors, typing, titles, events, received>>

\* typing: getTypingIndicators returned; typing is emitted to the others in the room
TypingGot(h) ==
    /\ handlers[h].pc = "y_get"
    /\ Emit(<<Message("typing", "typing", handlers[h].conn, handlers[h].doc,
                      Others(handlers[h].conn, handlers[h].doc),
                      <<UserOf(handlers[h].conn)>>, Cardinality(typing[handlers[h].doc]))>>)
    /\ handlers' = [handlers EXCEPT ![h] = IdleHandler]
    /\ RoomsUp
    /\ UNCHANGED <<batchVars, requests, cacheVars, cursors, typing, titles, events, received>>

\* socket.on('syncDocument'): the SELECT of the row is awaited
SyncDocument(c, d) ==
    /\ GuardedEvent(c, d, "syncDocument", [IdleHandler EXCEPT !.pc = "s_doc"])
    /\ UNCHANGED <<batchVars, requests, cacheVars, cursors, typing, titles>>

\* syncDocument: a read returned and the next is awaited: the row, the recent
\* operations, the presence, the cursors
SyncRead(h) ==
    /\ handlers[h].pc \in {"s_doc", "s_ops", "s_pres"}
    /\ LET hd == handlers[h]
       IN handlers' = [handlers EXCEPT ![h] =
             IF hd.pc = "s_doc"
             THEN [hd EXCEPT !.pc = "s_ops", !.num = documents[hd.doc].version]
             ELSE IF hd.pc = "s_ops" THEN [hd EXCEPT !.pc = "s_pres"]
             ELSE [hd EXCEPT !.pc = "s_cur", !.snap = PresenceList(presence[hd.doc])]]
    /\ Emit(<<>>)
    /\ RoomsUp
    /\ UNCHANGED <<batchVars, requests, cacheVars, cursors, typing, titles, events, received>>

\* syncDocument: getAllCursors returned; documentSync is emitted to the socket with
\* the row and the presence that were read
SyncDone(h) ==
    /\ handlers[h].pc = "s_cur"
    /\ Emit(<<WithCursors(Message("documentSync", "syncDocument", handlers[h].conn,
                                  handlers[h].doc, {handlers[h].conn} \cap Connected,
                                  handlers[h].snap, handlers[h].num), handlers[h].doc)>>)
    /\ handlers' = [handlers EXCEPT ![h] = IdleHandler]
    /\ RoomsUp
    /\ UNCHANGED <<batchVars, requests, cacheVars, cursors, typing, titles, events, received>>

\* the token a socket presented at its handshake was signed with expiresIn: '24h':
\* it passes its expiry while the socket is open
TokenExpires(c) ==
    /\ sockState[c] = "open"
    /\ sockToken[c].kind = "valid"
    /\ sockToken' = [sockToken EXCEPT ![c].kind = "expired"]
    /\ Emit(<<>>)
    /\ UNCHANGED <<sockState, sockUser, listening, activeConnections, rooms, presence,
                   activeUsers, chatMessages, handlers, events, received, titles>>
    /\ StoreUp

\* the handlers whose catch block emits `error` to the socket
ReportingHandlers == {"joinDocument", "documentEdit", "chatMessage", "titleChange", "syncDocument"}

\* an awaited store call of a handler throws: its catch block ends the handler
HandlerThrows(h) ==
    /\ handlers[h].pc \in {"a_get", "a_del", "a_set", "a_exp", "j_pres", "j_cur", "l_del",
                           "d_active", "d_rem", "d_del", "d_list", "e_title", "m_ins", "t_upd",
                           "u_set", "y_set", "y_exp", "y_get", "s_doc", "s_ops", "s_pres",
                           "s_cur"}
    /\ failures < MaxFailures
    /\ failures' = failures + 1
    /\ Emit(IF handlers[h].kind \in ReportingHandlers
            THEN <<Message("error", handlers[h].kind, handlers[h].conn, handlers[h].doc,
                           {handlers[h].conn} \cap Connected, <<>>, 0)>>
            ELSE <<>>)
    /\ handlers' = [handlers EXCEPT ![h] = IdleHandler]
    /\ UNCHANGED <<sockState, sockUser, listening, activeConnections, rooms, presence, events,
                   sockToken, activeUsers, chatMessages, titles, received>>
    /\ UNCHANGED <<batchOnlyVars, documents, requests, cacheVars, cursors, typing, presenceTtl>>

PresenceInit ==
    /\ sockState = [c \in Conns |-> "new"]
    /\ sockUser = [c \in Conns |-> NoUser]
    /\ sockToken = [c \in Conns |-> NoToken]
    /\ listening = [c \in Conns |-> FALSE]
    /\ activeConnections = [c \in Conns |-> [present |-> FALSE, currentDocument |-> NoDoc]]
    /\ rooms = [c \in Conns |-> {}]
    /\ presence = [d \in Docs |-> <<>>]
    /\ activeUsers = {}
    /\ handlers = [h \in HandlerIds |-> IdleHandler]
    /\ events = 0
    /\ received = [c \in Conns |-> <<>>]
    /\ emitted = {}
    /\ chatMessages = <<>>
    /\ titles = [d \in Docs |-> "untitled"]
    /\ cursors = [d \in Docs |-> [u \in Users |-> FALSE]]
    /\ typing = [d \in Docs |-> {}]
    /\ presenceTtl = [d \in Docs |-> 0]

\* the state once every socket has connected, one after the other, socket c with a
\* valid token of user us[c], and the connection handlers have returned
ConnectedAs(us) ==
        /\ sockState = [c \in Conns |-> "open"]
        /\ sockUser = us
        /\ sockToken = [c \in Conns |-> [kind |-> "valid", userId |-> us[c]]]
        /\ listening = [c \in Conns |-> TRUE]
        /\ activeConnections = [c \in Conns |-> [present |-> TRUE, currentDocument |-> NoDoc]]
        /\ rooms = [c \in Conns |-> {}]
        /\ presence = [d \in Docs |-> <<>>]
        /\ activeUsers = {[userId |-> us[c], at |-> c] : c \in
                             {b \in Conns : \A a \in Conns : us[a] = us[b] => a <= b}}
        /\ handlers = [h \in HandlerIds |-> IdleHandler]
        /\ events = 0
        /\ received = [c \in Conns |-> <<>>]
        /\ emitted = {}
        /\ chatMessages = <<>>
        /\ titles = [d \in Docs |-> "untitled"]
        /\ cursors = [d \in Docs |-> [u \in Users |-> FALSE]]
        /\ typing = [d \in Docs |-> {}]
        /\ presenceTtl = [d \in Docs |-> 0]

\* the state once the process has crashed and started again and every socket has
\* connected, all with tokens of u1: presence:doc:d1 still holds the entry of u2, who
\* was in d1 when the process crashed and has no socket now
CrashedInit ==
    /\ sockState = [c \in Conns |-> "open"]
    /\ sockUser = [c \in Conns |-> "u1"]
    /\ sockToken = [c \in Conns |-> [kind |-> "valid", userId |-> "u1"]]
    /\ listening = [c \in Conns |-> TRUE]
    /\ activeConnections = [c \in Conns |-> [present |-> TRUE, currentDocument |-> NoDoc]]
    /\ rooms = [c \in Conns |-> {}]
    /\ presence = [d \in Docs |->
          IF d = "d1" THEN HSet(<<>>, "u2", [userId |-> "u2", username |-> Username("u2")])
          ELSE <<>>]
    /\ presenceTtl = [d \in Docs |-> IF d = "d1" THEN PresenceTtl ELSE 0]
    /\ activeUsers = {[userId |-> "u1", at |-> MaxSockets]}
    /\ handlers = [h \in HandlerIds |-> IdleHandler]
    /\ events = 0
    /\ received = [c \in Conns |-> <<>>]
    /\ emitted = {}
    /\ chatMessages = <<>>
    /\ titles = [d \in Docs |-> "untitled"]
    /\ cursors = [d \in Docs |-> [u \in Users |-> FALSE]]
    /\ typing = [d \in Docs |-> {}]

\* user ids are interchangeable: the first socket is u1's
ConnectedInit == \E us \in {f \in [Conns -> Users] : f[1] = "u1"} : ConnectedAs(us)

\* the same, the first socket holding the token of u1 and the others tokens of the
\* other id with u1's display name
NamesakeInit == ConnectedAs([c \in Conns |-> IF c = 1 THEN "u1" ELSE Namesake])

\* the presence of a document once the first n sockets have joined their documents
\* (where[c]: the document socket c joined, or NoDoc), one after the other
RECURSIVE PresenceAfter(_, _, _, _)
PresenceAfter(us, where, d, n) ==
    IF n = 0 THEN <<>>
    ELSE LET before == PresenceAfter(us, where, d, n - 1)
         IN IF where[n] = d
            THEN HSet(before, us[n], [userId |-> us[n], username |-> Username(us[n])])
            ELSE before

\* the state once every socket has connected and some have joined a document, one
\* after the other, and all handlers have returned (ids are interchangeable: the first
\* socket is u1's and has joined d1)
JoinedInit ==
    \E us \in {f \in [Conns -> Users] : f[1] = "u1"} :
      \E where \in {f \in [Conns -> Docs \cup {NoDoc}] : f[1] = "d1"} :
        /\ sockState = [c \in Conns |-> "open"]
        /\ sockUser = us
        /\ sockToken = [c \in Conns |-> [kind |-> "valid", userId |-> us[c]]]
        /\ listening = [c \in Conns |-> TRUE]
        /\ activeConnections = [c \in Conns |-> [present |-> TRUE, currentDocument |-> where[c]]]
        /\ rooms = [c \in Conns |-> {where[c]} \ {NoDoc}]
        /\ presence = [d \in Docs |-> PresenceAfter(us, where, d, MaxSockets)]
        /\ activeUsers = {[userId |-> us[c], at |-> c] : c \in
                             {b \in Conns : \A a \in Conns : us[a] = us[b] => a <= b}}
        /\ handlers = [h \in HandlerIds |-> IdleHandler]
        /\ events = 0
        /\ received = [c \in Conns |->
              IF where[c] = NoDoc THEN <<>> ELSE <<[ev |-> "joinDocument", doc |-> where[c]]>>]
        /\ emitted = {}
        /\ chatMessages = <<>>
        /\ titles = [d \in Docs |-> "untitled"]
        /\ cursors = [d \in Docs |-> [u \in Users |-> FALSE]]
        /\ typing = [d \in Docs |-> {}]
        /\ presenceTtl = [d \in Docs |->
              IF PresenceAfter(us, where, d, MaxSockets) = <<>> THEN 0 ELSE PresenceTtl]

\* the events of a connection that name a document and are guarded by the current
\* document, at most MaxGuarded of them
EventNext ==
    /\ \/ \E c \in Conns, d \in Docs, content \in Contents, type \in OpTypes, title \in Titles :
             DocumentEdit(c, d, content, type, title)
       \/ \E h \in HandlerIds : EditTitleDone(h)
       \/ \E c \in Conns, d \in Docs, message \in Messages : ChatMessage(c, d, message)
       \/ \E h \in HandlerIds : ChatInserted(h)
       \/ \E c \in Conns, d \in Docs, title \in Titles, userId \in Users :
             TitleChange(c, d, title, userId)
       \/ \E h \in HandlerIds : TitleChanged(h)
       \/ \E c \in Conns, d \in Docs : CursorMove(c, d)
       \/ \E h \in HandlerIds : CursorSet(h)
       \/ \E c \in Conns, d \in Docs, isTyping \in BOOLEAN : Typing(c, d, isTyping)
       \/ \E h \in HandlerIds : TypingSet(h)
       \/ \E h \in HandlerIds : TypingExpireSet(h)
       \/ \E h \in HandlerIds : TypingGot(h)
       \/ \E c \in Conns, d \in Docs : SyncDocument(c, d)
       \/ \E h \in HandlerIds : SyncRead(h)
       \/ \E h \in HandlerIds : SyncDone(h)
       \/ \E h \in HandlerIds : HandlerThrows(h)
    /\ events' <= MaxGuarded

\* the documents an event may name: document ids are interchangeable, so the first
\* event to name a document names d1 and d2 is named only once d1 has been
EventDocs ==
    IF \E c \in Conns : \E i \in 1..Len(received[c]) : received[c][i].doc # NoDoc
    THEN Docs
    ELSE {"d1"}

\* sockets connecting and disconnecting
ConnectNext ==
    \/ \E c \in Conns, token \in Tokens : AuthenticateSocket(c, token)
    \/ \E h \in HandlerIds : ConnActiveGot(h)
    \/ \E h \in HandlerIds : ConnActiveStaleRemoved(h)
    \/ \E h \in HandlerIds : ConnRegistered(h)
    \/ \E h \in HandlerIds : ConnListening(h)
    \/ \E c \in Conns : Disconnect(c)
    \/ \E h \in HandlerIds : DisconnectActiveGot(h)
    \/ \E h \in HandlerIds : DisconnectActiveRemoved(h)
    \/ \E h \in HandlerIds : DisconnectAnnounced(h)
    \/ \E h \in HandlerIds : HandlerThrows(h)

\* connected sockets joining and leaving document rooms, and disconnecting
PresenceNext ==
    \/ \E c \in Conns, d \in EventDocs : JoinDocument(c, d)
    \/ \E h \in HandlerIds : JoinLeftPrevious(h)
    \/ \E h \in HandlerIds : JoinJoined(h)
    \/ \E h \in HandlerIds : AddGot(h)
    \/ \E h \in HandlerIds : AddDeleted(h)
    \/ \E h \in HandlerIds : AddSet(h)
    \/ \E h \in HandlerIds : AddExpired(h)
    \/ \E h \in HandlerIds : JoinPresenceGot(h)
    \/ \E h \in HandlerIds : JoinAnnounced(h)
    \/ \E c \in Conns, d \in EventDocs : LeaveDocument(c, d)
    \/ \E h \in HandlerIds : LeaveLeft(h)
    \/ \E h \in HandlerIds : LeaveRemoved(h)
    \/ \E c \in Conns : Disconnect(c)
    \/ \E h \in HandlerIds : DisconnectActiveGot(h)
    \/ \E h \in HandlerIds : DisconnectActiveRemoved(h)
    \/ \E h \in HandlerIds : DisconnectRemoved(h)
    \/ \E h \in HandlerIds : DisconnectAnnounced(h)
    \/ \E h \in HandlerIds : BroadcastPresenceGot(h)
    \/ \E h \in HandlerIds : BroadcastDone(h)
    \/ \E h \in HandlerIds : BroadcastThrows(h)
    \/ \E h \in HandlerIds : HandlerThrows(h)

\* the events of a document room: connected sockets joining and switching rooms,
\* editing, chatting and disconnecting
RoomNext ==
    \/ \E c \in Conns, d \in EventDocs : JoinDocument(c, d)
    \/ \E h \in HandlerIds : JoinLeftPrevious(h)
    \/ \E h \in HandlerIds : JoinJoined(h)
    \/ \E h \in HandlerIds : AddGot(h)
    \/ \E h \in HandlerIds : AddDeleted(h)
    \/ \E h \in HandlerIds : AddSet(h)
    \/ \E h \in HandlerIds : AddExpired(h)
    \/ \E h \in HandlerIds : JoinPresenceGot(h)
    \/ \E h \in HandlerIds : JoinAnnounced(h)
    \/ \E c \in Conns, d \in EventDocs, content \in Contents, type \in OpTypes, title \in RoomTitles :
          DocumentEdit(c, d, content, type, title)
    \/ \E h \in HandlerIds : EditTitleDone(h)
    \/ \E c \in Conns, d \in EventDocs, message \in Messages : ChatMessage(c, d, message)
    \/ \E h \in HandlerIds : ChatInserted(h)
    \/ \E c \in Conns : Disconnect(c)
    \/ \E h \in HandlerIds : DisconnectActiveGot(h)
    \/ \E h \in HandlerIds : DisconnectActiveRemoved(h)
    \/ \E h \in HandlerIds : DisconnectRemoved(h)
    \/ \E h \in HandlerIds : DisconnectAnnounced(h)
    \/ \E h \in HandlerIds : BroadcastPresenceGot(h)
    \/ \E h \in HandlerIds : BroadcastDone(h)
    \/ \E h \in HandlerIds : BroadcastThrows(h)
    \/ \E h \in HandlerIds : HandlerThrows(h)

\* ------------------------------------------------------------ specifications

Init == BatchInit /\ UpdateInit /\ PresenceInit /\ CacheInit

InitConnected == BatchInit /\ UpdateInit /\ ConnectedInit /\ CacheInit

\* the operation batcher with its timers, the termination signals and the exit
SpecBatch == Init /\ [][BatchNext /\ UNCHANGED <<requests, presenceVars, reads>>]_vars

\* concurrent PUT /:id/content requests
SpecUpdate == Init /\ [][UpdateNext /\ UNCHANGED <<presenceVars, reads>>]_vars

\* sockets joining and leaving document rooms, and the presence hash
SpecPresence == InitConnected /\ [][PresenceNext]_vars

\* connected sockets joining rooms, editing, chatting and disconnecting
SpecRoom == InitConnected /\ [][RoomNext]_vars

\* sockets settled in their rooms sending the events guarded by the current document
InitJoined == BatchInit /\ UpdateInit /\ JoinedInit /\ CacheInit

SpecEvents == InitJoined /\ [][EventNext]_vars

\* sockets settled in their rooms joining, leaving and disconnecting, with at most
\* MaxGuarded events between them
SettledNext == PresenceNext /\ events' <= MaxGuarded

SpecSettled == InitJoined /\ [][SettledNext]_vars

InitNamesakes == BatchInit /\ UpdateInit /\ NamesakeInit /\ CacheInit

\* two sockets whose tokens carry one display name under two user ids joining, leaving
\* and disconnecting, with at most MaxGuarded events between them
SpecNamesakes == InitNamesakes /\ [][SettledNext]_vars

\* sockets settled in their rooms moving their cursors, leaving, disconnecting and
\* asking for the state of their document
CursorsNext ==
    \/ \E c \in Conns, d \in Docs : CursorMove(c, d)
    \/ \E h \in HandlerIds : CursorSet(h)
    \/ \E d \in Docs, u \in Users : CursorExpires(d, u)
    \/ \E c \in Conns, d \in Docs : LeaveDocument(c, d)
    \/ \E h \in HandlerIds : LeaveLeft(h)
    \/ \E h \in HandlerIds : LeaveRemoved(h)
    \/ \E c \in Conns : Disconnect(c)
    \/ \E h \in HandlerIds : DisconnectActiveGot(h)
    \/ \E h \in HandlerIds : DisconnectActiveRemoved(h)
    \/ \E h \in HandlerIds : DisconnectRemoved(h)
    \/ \E h \in HandlerIds : DisconnectAnnounced(h)
    \/ \E h \in HandlerIds : BroadcastPresenceGot(h)
    \/ \E h \in HandlerIds : BroadcastDone(h)
    \/ \E c \in Conns, d \in Docs : SyncDocument(c, d)
    \/ \E h \in HandlerIds : SyncRead(h)
    \/ \E h \in HandlerIds : SyncDone(h)

SpecCursors == InitJoined /\ [][CursorsNext]_vars

\* sockets settled in their rooms chatting while their tokens pass their expiry, with
\* at most MaxGuarded events between them
TokensNext ==
    /\ \/ \E c \in Conns : TokenExpires(c)
       \/ \E c \in Conns, d \in Docs, message \in Messages : ChatMessage(c, d, message)
       \/ \E h \in HandlerIds : ChatInserted(h)
       \/ \E h \in HandlerIds : HandlerThrows(h)
    /\ events' <= MaxGuarded

SpecTokens == InitJoined /\ [][TokensNext]_vars

InitCrashed == BatchInit /\ UpdateInit /\ CrashedInit /\ CacheInit

\* sockets joining documents after a crash of the process while time passes
ExpiryNext ==
    \/ \E c \in Conns, d \in Docs : JoinDocument(c, d)
    \/ \E h \in HandlerIds : JoinLeftPrevious(h)
    \/ \E h \in HandlerIds : JoinJoined(h)
    \/ \E h \in HandlerIds : AddGot(h)
    \/ \E h \in HandlerIds : AddDeleted(h)
    \/ \E h \in HandlerIds : AddSet(h)
    \/ \E h \in HandlerIds : AddExpired(h)
    \/ \E h \in HandlerIds : JoinPresenceGot(h)
    \/ \E h \in HandlerIds : JoinAnnounced(h)
    \/ \E h \in HandlerIds : BroadcastPresenceGot(h)
    \/ \E h \in HandlerIds : BroadcastDone(h)
    \/ PresenceTick

SpecExpiry == InitCrashed /\ [][ExpiryNext]_vars

\* sockets presenting their credentials, connecting and disconnecting
SpecConnect == Init /\ [][ConnectNext]_vars

\* the operations and requests started so far
Started == nextOp + Cardinality({r \in ReqIds : requests[r].pc # "idle"})

\* the writers of the documents rows side by side: the batcher, PUT /:id/content and
\* PUT /:id/title, with at most MaxStarted operations and requests between them
DurableNext ==
    /\ \/ BatchNext /\ UNCHANGED <<requests, titles>>
       \/ UpdateNext /\ UNCHANGED titles
       \/ TitleNext
    /\ Started' <= MaxStarted

SpecDurable == Init /\ [][DurableNext /\ UNCHANGED <<socketVars, reads>>]_vars

\* the requests begun so far: reads and writes
Requested ==
    Cardinality({r \in ReqIds : requests[r].pc # "idle"})
        + Cardinality({g \in ReadIds : reads[g].pc # "idle"})

\* the titleChange events of sockets settled in their rooms side by side with
\* PUT /:id/title, with at most MaxStarted events and requests between them
TitlesNext ==
    /\ \/ \E c \in Conns, d \in Docs, title \in Titles, userId \in Users :
             TitleChange(c, d, title, userId)
       \/ \E h \in HandlerIds : TitleChanged(h)
       \/ \E h \in HandlerIds : HandlerThrows(h)
       \/ TitleNext /\ UNCHANGED <<socketVars, reads>>
    /\ events' + Requested' <= MaxStarted

SpecTitles == InitJoined /\ [][TitlesNext]_vars

\* GET /:id side by side with PUT /:id/content and PUT /:id/title, with at most
\* MaxStarted requests between them
CacheNext ==
    /\ \/ ReadNext /\ UNCHANGED <<requests, titles>>
       \/ UpdateNext /\ UNCHANGED <<titles, reads>>
       \/ TitleNext /\ UNCHANGED reads
    /\ Requested' <= MaxStarted

SpecCache == Init /\ [][CacheNext /\ UNCHANGED socketVars]_vars

\* ------------------------------------------------- properties of the batcher

\* the flush windows of a document in which operations were submitted: the window of
\* an operation is the number of flushes of its document started before its submit
Windows(d) == {o.win : o \in SubmittedOps(d)}

StrictlyIncreasing(s) == \A i, j \in 1..Len(s) : i < j => s[i] < s[j]

\* nothing is pending, armed or running for the document any more
Quiet(d) ==
    /\ operationBatches[d] = 0
    /\ \A t \in ActiveTasks : flushTasks[t].doc # d
    /\ \A a \in OpIds : arrTimer[a] => ArrDoc(a) # d

\* C1: a batch of N >= 1 operations submitted within one flush window yields exactly
\* one content write and one version increment, carrying the finalContent of the last
\* operation of the batch.  Stated as what this implies in every state while no store
\* call has thrown: a document has had no more content writes (version increments)
\* than windows with operations, and every content write carries the last operation of
\* a window.
C1_OneWritePerBatch ==
    failures = 0 =>
        \A d \in Docs :
            /\ Len(contentWrites[d]) <= Cardinality(Windows(d))
            /\ documents[d].version - 1 <= Cardinality(Windows(d))
            /\ \A k \in Range(contentWrites[d]) :
                   \A o \in SubmittedOps(d) : o.win = OpById(k).win => o.id <= k

\* C2: an operation submitted while a flush of its document is in progress is not
\* lost: with the store available, once nothing is pending, armed or running for the
\* document, the operation is in the operation log and a content write has carried its
\* finalContent or that of a later operation.
C2_SubmitDuringFlushKept ==
    \A d \in Docs :
        (failures = 0 /\ phase # "exited" /\ Quiet(d)) =>
            \A o \in SubmittedOps(d) :
                o.during =>
                    /\ o.id \in Range(opLog[d])
                    /\ \E k \in Range(contentWrites[d]) : k >= o.id

\* C3: at most one flush of a document is in progress at any time
C3_SingleFlushPerDocument ==
    phase # "exited" =>
        \A d \in Docs : Cardinality({t \in ActiveTasks : flushTasks[t].doc = d}) <= 1

\* C7: a batch whose flush failed on a store throw is dropped: it is no longer the
\* document's pending queue, and no later flush works on it again
C7_FailedBatchDropped ==
    phase # "exited" =>
        /\ \A d \in Docs : operationBatches[d] \notin failedArrs
        /\ \A t \in ActiveTasks : ~flushTasks[t].retry

\* C8: on a graceful stop every operation that was queued when the signal arrived is
\* logged, and its content (or a later one) written, before the process exits; read
\* with the store available and after every query in flight at the exit has settled
C8_FlushedBeforeExit ==
    (phase = "exited" /\ ActiveTasks = {} /\ failures = 0) =>
        \A k \in pendingAtSignal :
            /\ k \in Range(opLog[OpById(k).doc])
            /\ \E w \in Range(contentWrites[OpById(k).doc]) : w >= k

\* C9: with the store available the operation log of a document holds the submitted
\* operations in submission order, each once
C9_LogInSubmissionOrder ==
    failures = 0 => \A d \in Docs : StrictlyIncreasing(opLog[d])

\* --------------------------------------------- properties of PUT /:id/content

\* C4: of two content updates of one document that supply the same client version at
\* most one succeeds (read for versions the handler treats as supplied)
C4_SingleWriterPerVersion ==
    \A r1, r2 \in ReqIds :
        (/\ r1 # r2
         /\ requests[r1].result = "ok" /\ requests[r2].result = "ok"
         /\ requests[r1].doc = requests[r2].doc
         /\ Truthy(requests[r1].cv))
        => requests[r1].cv.value # requests[r2].cv.value

\* C5: a content update whose client version equals the stored version succeeds and
\* returns the version it checked against plus one
C5_MatchYieldsNextVersion ==
    \A r \in ReqIds :
        (requests[r].result = "ok" /\ Truthy(requests[r].cv))
        => /\ requests[r].cv.value = requests[r].currentVersion
           /\ requests[r].retVersion = requests[r].currentVersion + 1

\* C6: a content update that supplies a client version (0 included) differing from
\* the stored version ends in a conflict and writes nothing: it never gets past the
\* version check
C6_MismatchConflicts ==
    \A r \in ReqIds :
        (/\ requests[r].pc \in {"update", "invalidate", "done"}
         /\ requests[r].result \notin {"badRequest", "error"}
         /\ requests[r].cv.supplied
         /\ requests[r].cv.value # requests[r].currentVersion)
        => requests[r].result = "conflict"

\* ------------------------------------------------ properties of the presence

EntriesOf(d, u) == {i \in 1..Len(presence[d]) : presence[d][i].userId = u}

\* C10: over all joins and leaves of a document by one identity, from one or several
\* connections and in any interleaving, the presence of the document holds at most one
\* entry for that identity
C10_OnePresenceEntryPerIdentity ==
    \A d \in Docs : \A u \in Users : Cardinality(EntriesOf(d, u)) <= 1

\* two connections of one user have both joined the same document, every handler has
\* run to its end without a throw, and the presence lists the user
C10_Witness ==
    \E d \in Docs : \E c1, c2 \in Conns :
        /\ c1 # c2 /\ UserOf(c1) = UserOf(c2)
        /\ activeConnections[c1].currentDocument = d
        /\ activeConnections[c2].currentDocument = d
        /\ handlers = [h \in HandlerIds |-> IdleHandler]
        /\ failures = 0
        /\ Cardinality(EntriesOf(d, UserOf(c1))) = 1

\* ------------------------------------------------- properties of the rooms

\* the live sockets in the room of a document
InRoom(d) == {b \in Conns : sockState[b] = "open" /\ d \in rooms[b]}

\* the last event received from a socket
LastReceived(c) == received[c][Len(received[c])]

Quiescent == handlers = [h \in HandlerIds |-> IdleHandler]

\* the user of a socket has no other socket
OnlySocketOfUser(c) == \A b \in Conns \ {c} : UserOf(b) # UserOf(c)

\* C11: a content documentEdit is never sent to the connection it came from, and it
\* is sent to every other live connection that is in the room of the document
C11_EditReachesOthersOnly ==
    \A m \in emitted :
        (m.ev = "documentEdit" /\ m.n > 0) =>
            /\ m.from \notin m.to
            /\ InRoom(m.doc) \ {m.from} \subseteq m.to

\* a content edit has just been sent to another connection of the room while its
\* sender is in the room too
C11_Witness ==
    \E m \in emitted :
        /\ m.ev = "documentEdit" /\ m.n > 0
        /\ m.to # {}
        /\ m.from \in InRoom(m.doc)

\* C12: a connection is in at most one document room
C12_AtMostOneRoom == \A c \in Conns : Cardinality(rooms[c]) <= 1

\* the positions of joinDocument at which the presence insert of the new document
\* has been applied
JoinEffectApplied == {"a_exp", "j_pres", "j_cur", "b_pres", "b_doc"}

\* C13: when a connection in room D1 joins D2, the leave of D1 has completed before
\* any join effect for D2 is applied: once the presence insert for D2 has landed
\* (no other handler of the connection running), the user, who has no other
\* connection, has no presence entry for D1 and the handler has sent userLeft
C13_LeaveBeforeJoinEffects ==
    \A h \in HandlerIds :
        LET hd == handlers[h]
        IN (/\ hd.kind = "joinDocument"
            /\ hd.was \notin {NoDoc, hd.doc}
            /\ hd.pc \in JoinEffectApplied
            /\ \A g \in HandlerIds \ {h} : handlers[g].conn # hd.conn
            /\ OnlySocketOfUser(hd.conn)
            /\ failures = 0)
           => /\ EntriesOf(hd.was, UserOf(hd.conn)) = {}
              /\ "userLeft" \in hd.sent

Settled(b, d) ==
    /\ b \in InRoom(d)
    /\ activeConnections[b].currentDocument = d
    /\ received[b] # <<>> /\ LastReceived(b) = [ev |-> "joinDocument", doc |-> d]
    /\ \A h \in HandlerIds : handlers[h].conn # b

\* C15: when a connection joins D (and sends nothing after the join), the
\* documentJoined it receives lists the joiner, userJoined goes to every other
\* connection in room D, and the presence of D then lists the joiner and the users
\* of the connections settled in D
C15_JoinAnnouncesJoiner ==
    \A m \in emitted :
        (/\ m.by = "joinDocument"
         /\ m.ev \in {"documentJoined", "userJoined"}
         /\ LastReceived(m.from) = [ev |-> "joinDocument", doc |-> m.doc]
         /\ failures = 0)
        => /\ m.ev = "documentJoined" =>
                 /\ m.to = {m.from}
                 /\ UserOf(m.from) \in Range(m.users)
                 /\ EntriesOf(m.doc, UserOf(m.from)) # {}
                 /\ \A b \in Conns \ {m.from} :
                        Settled(b, m.doc) => EntriesOf(m.doc, UserOf(b)) # {}
           /\ m.ev = "userJoined" => m.to = InRoom(m.doc) \ {m.from}

\* C16: a chatMessage is emitted only once its row is stored, carries the id the
\* store gave the row and goes to every live connection in the room, the sender
\* included when it is there; a failed insert yields nothing but an error to the
\* sender
C16_ChatStoredThenSentToRoom ==
    \A m \in emitted :
        /\ m.ev = "chatMessage" =>
              /\ \E i \in 1..Len(chatMessages) :
                     /\ chatMessages[i].id = m.n
                     /\ chatMessages[i].doc = m.doc
                     /\ chatMessages[i].userId = UserOf(m.from)
              /\ m.to = InRoom(m.doc)
        /\ (m.by = "chatMessage" /\ m.ev = "error") =>
              /\ emitted = {m}
              /\ m.to \subseteq {m.from}

\* a chat message has just been stored and sent to two connections, its sender one
\* of them
C16_Witness ==
    \E m \in emitted :
        /\ m.ev = "chatMessage"
        /\ m.from \in m.to
        /\ Cardinality(m.to) = 2
        /\ chatMessages # <<>>

\* C17: a connection attempt without a valid credential is refused before the
\* connection handler runs: the socket never opens, is never registered or listed as
\* an active user, has no listeners, and nothing it sends is handled
C17_RefusedBeforeHandlers ==
    \A c \in Conns :
        (sockState[c] # "new" /\ sockToken[c].kind # "valid") =>
            /\ sockState[c] = "refused"
            /\ sockUser[c] = NoUser
            /\ ~activeConnections[c].present
            /\ ~listening[c]
            /\ \A m \in activeUsers : m.at # c
            /\ \A h \in HandlerIds : handlers[h].conn # c
            /\ received[c] = <<>>

\* a socket with a forged or expired token naming a user has been refused while a
\* socket of that user with a valid token is registered
C17_Witness ==
    \E c, b \in Conns :
        /\ sockToken[c].kind \in {"forged", "expired"}
        /\ sockState[c] = "refused"
        /\ sockToken[b] = [kind |-> "valid", userId |-> sockToken[c].userId]
        /\ activeConnections[b].present

\* C18: the version of a document starts at 1 and no step decreases it
C18_VersionMonotonic ==
    /\ \A d \in Docs : documents[d].version = 1
    /\ [][\A d \in Docs : documents'[d].version >= documents[d].version]_vars

\* a batch flush and a PUT /:id/content have both written one document
C18_Witness ==
    \E d \in Docs :
        /\ documents[d].version = 3
        /\ contentWrites[d] # <<>>
        /\ \E r \in ReqIds : requests[r].doc = d /\ requests[r].result = "ok"

\* C19: no operation is written to the operation log more than once
C19_LoggedAtMostOnce ==
    \A d \in Docs : \A i, j \in 1..Len(opLog[d]) : opLog[d][i] = opLog[d][j] => i = j

\* C20: the events of one connection take effect in receipt order: when a joinDocument
\* for D was followed by a leaveDocument for D or by the disconnect, and every handler
\* has run to its end without a throw, the user (who has no other connection) has no
\* presence entry for D
C20_ReceiptOrder ==
    \A c \in Conns : \A d \in Docs :
        (/\ Quiescent
         /\ failures = 0
         /\ OnlySocketOfUser(c)
         /\ Len(received[c]) >= 2
         /\ received[c][Len(received[c]) - 1] = [ev |-> "joinDocument", doc |-> d]
         /\ LastReceived(c).ev \in {"leaveDocument", "disconnect"}
         /\ LastReceived(c).doc \in {d, NoDoc})
        => EntriesOf(d, UserOf(c)) = {}

\* ------------------------------------------------- properties of the cache

\* no GET or PUT request and no flush is in flight
NothingInFlight ==
    /\ \A r \in ReqIds : requests[r].pc \in {"idle", "done"}
    /\ \A g \in ReadIds : reads[g].pc \in {"idle", "done"}
    /\ ActiveTasks = {}

\* C21: whenever no document read or write is in flight (and no store call has
\* thrown), a cache entry that is present has the content, title and version of the
\* durable row
C21_CacheMatchesRow ==
    (NothingInFlight /\ failures = 0) =>
        \A d \in Docs : cache[d] \in {NoEntry, DocumentData(d)}

\* an invalidation of the document's cache entry has been issued and not yet returned
InvalidationPending(d) ==
    \/ \E t \in TaskIds : flushTasks[t].pc = "invalidate" /\ flushTasks[t].doc = d
    \/ \E r \in ReqIds : requests[r].pc \in {"invalidate", "t_invalidate"} /\ requests[r].doc = d

\* C22: every persisted write to a document row is followed by an invalidation of the
\* document's cache entry: the step that changes the row issues the invalidation
C22_WriteThenInvalidate ==
    [][\A d \in Docs :
          (documents'[d] # documents[d] \/ titles'[d] # titles[d]) => InvalidationPending(d)']_vars

\* ------------------------------------------- properties of the guarded events

\* C27: a leaveDocument naming a document other than the connection's current one
\* changes nothing: once its handler has passed socket.leave (no other handler of the
\* connection running, no store call thrown) the current document is what it was and
\* no userLeft was sent
C27_LeaveOtherDocumentIgnored ==
    \A h \in HandlerIds :
        LET hd == handlers[h]
        IN (/\ hd.kind = "leaveDocument"
            /\ hd.was \notin {NoDoc, hd.doc}
            /\ hd.pc # "l_left"
            /\ \A g \in HandlerIds \ {h} : handlers[g].conn # hd.conn
            /\ failures = 0)
           => /\ activeConnections[hd.conn].currentDocument = hd.was
              /\ "userLeft" \notin hd.sent

\* the events whose handlers return at once unless the document is the current one
GuardedKinds ==
    {"documentEdit", "cursorMove", "chatMessage", "typing", "titleChange", "syncDocument"}

\* C28: a documentEdit, cursorMove, chatMessage, typing, titleChange or syncDocument
\* naming a document other than the connection's current one changes no stored state,
\* starts no handler and emits nothing
C28_OtherDocumentIgnored ==
    [][\A c \in Conns :
          (/\ Len(received'[c]) > Len(received[c])
           /\ LastReceived(c)'.ev \in GuardedKinds
           /\ LastReceived(c)'.doc # activeConnections[c].currentDocument)
          => /\ emitted' = {}
             /\ UNCHANGED <<batchVars, requests, cacheVars, titles, chatMessages, cursors,
                            typing, presence, handlers, activeConnections, rooms>>]_vars

\* a connection whose current document is one document has sent a guarded event
\* naming the other, and nothing is in flight
C28_Witness ==
    \E c \in Conns :
        /\ received[c] # <<>>
        /\ LastReceived(c).ev \in GuardedKinds
        /\ activeConnections[c].currentDocument \notin {NoDoc, LastReceived(c).doc}
        /\ Quiescent
        /\ events = MaxGuarded

\* the events that name their originator
OriginatorEvents ==
    {"documentEdit", "cursorMove", "chatMessage", "typing", "titleChange", "userJoined",
     "userLeft"}

\* C29: every event that reaches a connection on behalf of another names as
\* originator the user the sending connection authenticated as
C29_OriginatorIsAuthenticated ==
    \A m \in emitted :
        (m.ev \in OriginatorEvents /\ m.to # {}) => m.users = <<UserOf(m.from)>>

\* ------------------------------------------- properties of the flush timer

\* the operation whose push stored the timeout that is pending for an array: every
\* call of batchDocumentOperation clears the stored timeout and stores a new one
TimeoutSetBy(a) == LastQueued(arrOps[a]).id

LastSubmitted(d) ==
    LET ids == {k \in 1..nextOp : OpById(k).doc = d}
    IN OpById(Max(ids)).finalContent

\* C24: once the edits to a document have stopped and everything has run to its end
\* (no timer pending, no flush running, no store call thrown, the process running),
\* the durable content is the content of the last operation submitted
C24_LastEditPersisted ==
    \A d \in Docs :
        (/\ phase = "running"
         /\ failures = 0
         /\ ActiveTasks = {}
         /\ \A a \in OpIds : ~arrTimer[a]
         /\ \E k \in 1..nextOp : OpById(k).doc = d)
        => documents[d].content = LastSubmitted(d)

\* ------------------------------------------- properties of the version

\* the PUT /:id/content requests whose UPDATE of a document has been executed
PutWrites(d) == {r \in ReqIds : requests[r].doc = d /\ requests[r].retVersion # 0}

\* C25: the version of a document is 1 plus the number of content UPDATEs executed on
\* it, those of the flushes and those of PUT /:id/content together
C25_VersionCountsWrites ==
    \A d \in Docs :
        documents[d].version = 1 + Len(contentWrites[d]) + Cardinality(PutWrites(d))

\* a flush and a PUT /:id/content have both executed their UPDATE of one document
\* and both await their invalidation
C25_Witness ==
    \E d \in Docs : \E t \in TaskIds : \E r \in ReqIds :
        /\ flushTasks[t].doc = d /\ flushTasks[t].pc = "invalidate"
        /\ requests[r].doc = d /\ requests[r].pc = "invalidate"
        /\ documents[d].version = 3

\* ------------------------------------------- properties of the presence entries

\* C26: while a connection of a user is settled in D, the user has a presence entry
\* for D, also while or after another connection of the same user, whose current
\* document was D too, leaves D or disconnects
C26_EntryKeptWhileConnected ==
    \A h \in HandlerIds :
        LET hd == handlers[h]
        IN \A b \in Conns \ {hd.conn} :
              (/\ hd.kind \in {"leaveDocument", "disconnect"}
               /\ hd.was # NoDoc
               /\ hd.kind = "leaveDocument" => hd.doc = hd.was
               /\ UserOf(b) = UserOf(hd.conn)
               /\ Settled(b, hd.was)
               /\ failures = 0)
              => EntriesOf(hd.was, UserOf(b)) # {}

C31_TitleEditNotQueued ==
    \A a \in OpIds : \A i \in 1..Len(arrOps[a]) : arrOps[a][i].type # "title"

\* ------------------------------------------- properties of the handlers' errors

\* the events whose handlers run inside a try block of their own
EventKinds ==
    {"joinDocument", "leaveDocument", "documentEdit", "cursorMove", "chatMessage", "typing",
     "titleChange", "syncDocument"}

\* C32: when a store call awaited by the handler of an event throws, the handler ends
\* with an error event sent to the socket of the event and to no other, and the
\* socket stays open
C32_ErrorReportedToSender ==
    [][\A h \in HandlerIds :
          LET hd == handlers[h]
          IN (/\ hd.kind \in EventKinds
              /\ hd.pc \notin {"idle", "b_pres", "b_doc"}
              /\ sockState[hd.conn] = "open"
              /\ failures' = failures + 1
              /\ handlers'[h] = IdleHandler)
             => /\ \E m \in emitted' : m.ev = "error" /\ m.to = {hd.conn}
                /\ \A m \in emitted' : m.ev = "error" => m.to \subseteq {hd.conn}
                /\ sockState'[hd.conn] = "open"]_vars

\* C33: when a call of the ephemeral store awaited by GET /:id throws (the lookup of
\* the cached document or the caching of the row read), the request does not fail
C33_ReadFallsThrough ==
    [][\A g \in ReadIds :
          (/\ reads[g].pc \in {"cached", "fill"}
           /\ failures' = failures + 1
           /\ reads'[g] # reads[g])
          => reads'[g].result # "error"]_vars

\* ------------------------------------------- properties of the document summary

\* the handlers of the structural changes of a room
StructuralKinds == {"joinDocument", "leaveDocument", "disconnect", "titleChange"}

\* C34: the handler of a join, a leave, a disconnect from a room or a title change
\* of a document does not return, while no store call has thrown, without
\* documentUpdated for that document having been sent
C34_SummaryBroadcast ==
    [][\A h \in HandlerIds :
          LET hd == handlers[h]
          IN (/\ hd.kind \in StructuralKinds
              /\ hd.doc # NoDoc
              /\ handlers'[h] = IdleHandler
              /\ failures' = 0)
             => \/ "documentUpdated" \in hd.sent
                \/ \E m \in emitted' : m.ev = "documentUpdated" /\ m.doc = hd.doc]_vars

\* ------------------------------------------- properties of the title updates

\* C35: a title update, by PUT /:id/title or by a titleChange event, is never answered
\* with a version conflict and changes neither content nor version of any document;
\* every title write that lands sets the durable title to its own, whatever landed
\* before, and a titleChange that lands is sent to the others in the room
C35_TitleLastWriteWins ==
    [][/\ titles' # titles => documents' = documents
       /\ \A r \in ReqIds : requests'[r].title # "" => requests'[r].result # "conflict"
       /\ \A r \in ReqIds :
             (requests[r].pc = "t_update" /\ requests'[r].pc = "t_invalidate")
             => titles'[requests[r].doc] = requests[r].title
       /\ \A h \in HandlerIds :
             LET hd == handlers[h]
             IN (hd.kind = "titleChange" /\ handlers'[h] = IdleHandler /\ failures' = failures)
                => /\ titles'[hd.doc] = hd.arg
                   /\ \E m \in emitted' :
                         /\ m.ev = "titleChange" /\ m.doc = hd.doc /\ m.from = hd.conn
                         /\ m.to = Others(hd.conn, hd.doc)]_vars

\* of two titleChange events racing on one document with different titles, one has
\* landed and has been sent to another socket, and the other is still awaiting its
\* UPDATE
C35_Witness ==
    \E m \in emitted : \E h \in HandlerIds :
        /\ m.ev = "titleChange" /\ m.to # {}
        /\ handlers[h].kind = "titleChange" /\ handlers[h].pc = "t_upd"
        /\ handlers[h].doc = m.doc
        /\ handlers[h].arg # titles[m.doc]

\* ------------------------------------------- properties of the active users

\* C36: once a socket has gone and every handler of it has returned without a throw,
\* activeConnections has no entry for it and, unless the user has another live
\* socket, active:users has no member for its user
C36_GoneSocketRemoved ==
    \A c \in Conns :
        (/\ sockState[c] = "gone"
         /\ \A h \in HandlerIds : handlers[h].conn # c
         /\ failures = 0)
        => /\ ~activeConnections[c].present
           /\ (\A b \in Connected : UserOf(b) # UserOf(c)) => MembersOf(UserOf(c)) = {}

\* C37: while every handler has returned without a throw, the user of a live socket
\* that is registered in activeConnections has a member in active:users, also when
\* another socket of the same user has disconnected
C37_LiveUserListed ==
    \A b \in Connected :
        (/\ activeConnections[b].present
         /\ Quiescent
         /\ failures = 0)
        => MembersOf(UserOf(b)) # {}

\* ------------------------------------------- properties of the cursors

\* C38: the cursors map of a documentJoined or documentSync, sent to a socket whose
\* current document it is while no other handler is running, names only users that
\* have a presence entry for the document or a live socket in it: none that has left
\* the document or disconnected
C38_CursorsOfPresentUsers ==
    \A m \in emitted :
        (/\ m.ev \in {"documentJoined", "documentSync"}
         /\ activeConnections[m.from].currentDocument = m.doc
         /\ Quiescent)
        => \A u \in m.cursors :
              \/ EntriesOf(m.doc, u) # {}
              \/ \E b \in Connected :
                    UserOf(b) = u /\ activeConnections[b].currentDocument = m.doc

\* ------------------------------------------- properties of the credentials

\* C40: an event received from a socket whose token has passed its expiry is not
\* handled: no handler starts for it
C40_ExpiredTokenIgnored ==
    [][\A c \in Conns :
          (sockToken[c].kind = "expired" /\ received'[c] # received[c])
          => handlers' = handlers]_vars

\* ------------------------------------------- properties of the presence timeout

\* C39: the presence entry of a user without a live socket goes when the timeout it
\* was written with runs out: no step that keeps the entry leaves its key more time
\* than it had
C39_PhantomExpiryNotPostponed ==
    [][\A d \in Docs : \A u \in Users :
          (/\ \A b \in Connected : UserOf(b) # u
           /\ EntriesOf(d, u) # {}
           /\ \E i \in 1..Len(presence'[d]) : presence'[d][i].userId = u)
          => presenceTtl'[d] <= presenceTtl[d]]_vars

====
